---- MODULE Spec2Model ----
(***************************************************************************)
(* Timer state management of static/js/timer-state.js: the                  *)
(* TimerStateManager class (one elapsed-time tracker per candidate and      *)
(* question, persisted in sessionStorage), the GlobalTimerManager registry  *)
(* with its page-level event listeners, and the page life cycle around      *)
(* them (clock, visibility, unload and reload, storage that may throw).     *)
(* And, of the analytics dashboard, the preferences store                   *)
(* (analytics_ui/dashboard/src/stores/analytics-store.ts) and the tenant    *)
(* metadata of DashboardChrome (components/layout/dashboard-chrome.tsx).    *)
(***************************************************************************)
EXTENDS Integers, Sequences, FiniteSets, TLC

(***************************************************************************)
(* Bounds of the model.                                                     *)
(***************************************************************************)
\* Number of clock advances in one behaviour.
MaxTicks == 3
\* Number of TimerStateManager objects constructed per page load.
MaxInst == 2
\* Number of unsubscribe closures handed out per page load.
MaxUnsubs == 2
\* Number of page reloads in one behaviour.
MaxReloads == 1
\* Number of page reloads in one behaviour that follows one session.
MaxSessionReloads == 2
\* Number of times the metadata effect of DashboardChrome runs.
MaxFetches == 3
\* Date.now() when the first page is loaded (milliseconds).
Epoch == 1000000

(***************************************************************************)
(* Program constants and JavaScript values.                                 *)
(***************************************************************************)
\* timer-state.js:38, the session validity window in milliseconds.
SessionWindow == 3600000
\* JavaScript null (state.startTime, autoSaveInterval) and a missing field.
Null == -1
\* JavaScript NaN: parseInt of a non-numeric string, arithmetic on undefined.
NaN == -2

\* The clock advances by one of these amounts (milliseconds): within a
\* question, and across the session window.
Deltas == {1, 65000}
LongDeltas == {1, SessionWindow - 1}
\* Advances that cross the second, ten seconds and the hour on the display.
DisplayDeltas == {1, 999, 9000, 3591000}

\* (candidateId, questionIndex) pairs used by the page.
Keys == {<<"c1", 0>>}
\* The pairs of a page with two timers: their concatenations differ in
\* the place of the separator only.
RegistryKeys == {<<"c", 11>>, <<"c_1", 1>>}

\* Listener callbacks the page subscribes; "bad" throws when invoked.
Listeners == {"good", "bad"}
ListenerThrows(l) == l = "bad"

\* sessionStorage behaviour: working, setItem throws (quota exceeded),
\* every access throws (storage denied).
StorageModes == {"ok", "quota", "denied"}

VARIABLES
    now,            \* Date.now()
    ticks,          \* clock advances so far (bounds the behaviour)
    reloads,        \* page reloads so far (bounds the behaviour)
    page,           \* "live" or "unloading" (beforeunload has been dispatched)
    hidden,         \* document.hidden
    storageMode,    \* how sessionStorage behaves, see StorageModes
    storage,        \* sessionStorage: present key -> stored string
    nextInst,       \* TimerStateManager objects constructed by this page so far
    timers,         \* the TimerStateManager objects in use: instance -> object
    activeTimers,   \* GlobalTimerManager.activeTimers: registry key -> instance
    intervals,      \* live setInterval handles: set of [id, owner]
    unsubs,         \* unsubscribe closures returned by subscribe()
    last,           \* observation of the last operation (what its caller saw)
    hist,           \* per instance history: what pause/resume/stop did and when
    unloaded,       \* registry key -> getElapsedTime() of its running timer at
                    \* the unload, and when that was
    cleaned,        \* registry key -> the instance cleanupTimer removed and
                    \* its getElapsedTime() then, until getTimer is called
    globalListeners, \* listeners the GlobalTimerManager installed: event -> count
    envTenant,      \* the tenant variable of the build environment
    analytics,      \* useAnalyticsStore state: [tenant, selectedJobCode]
    persisted,      \* localStorage item "analytics-preferences"
    storeCall,      \* the last call on the store: [op, arg]
    chrome,         \* DashboardChrome as last rendered: the tenant prop and the
                    \* state hooks tenantMeta, metaLoaded, logoLoaded, logoErrored
    effects         \* the runs of its metadata effect, oldest first: the
                    \* closure of each run [tenant, cancelled, phase, got, seen]

vars == <<now, ticks, reloads, page, hidden, storageMode, storage, nextInst,
          timers, activeTimers, intervals, unsubs, last, hist, unloaded,
          cleaned, globalListeners, envTenant, analytics, persisted,
          storeCall, chrome, effects>>

\* The variables of the timers, of the analytics store and of
\* DashboardChrome.
timerVars == <<now, ticks, reloads, page, hidden, storageMode, storage, nextInst,
               timers, activeTimers, intervals, unsubs, last, hist, unloaded,
               cleaned, globalListeners>>
storeVars == <<envTenant, analytics, persisted, storeCall>>
chromeVars == <<chrome, effects>>

(***************************************************************************)
(* JavaScript number helpers.                                               *)
(***************************************************************************)
\* a - b with NaN propagating.
Minus(a, b) == IF a = NaN \/ b = NaN THEN NaN ELSE a - b
\* a < b; any comparison with NaN is false.
LessThan(a, b) == a # NaN /\ b # NaN /\ a < b
\* !x for a number-or-null x.
Falsy(x) == x \in {0, Null, NaN}

DigitChars == <<"0", "1", "2", "3", "4", "5", "6", "7", "8", "9">>
IsDigit(ch) == \E d \in 1..10 : DigitChars[d] = ch
DigitVal(ch) == (CHOOSE d \in 1..10 : DigitChars[d] = ch) - 1

\* Number.prototype.toString() of a non-negative integer: decimal digits.
RECURSIVE NumberToString(_)
NumberToString(n) ==
    IF n < 10 THEN <<DigitChars[n + 1]>>
    ELSE Append(NumberToString(n \div 10), DigitChars[(n % 10) + 1])

RECURSIVE ParseDigits(_, _, _)
ParseDigits(s, i, acc) ==
    IF i > Len(s) \/ ~IsDigit(s[i]) THEN acc
    ELSE ParseDigits(s, i + 1, acc * 10 + DigitVal(s[i]))

\* parseInt(s): the leading decimal digits, NaN when there are none.
ParseInt(s) ==
    IF Len(s) = 0 \/ ~IsDigit(s[1]) THEN NaN ELSE ParseDigits(s, 1, 0)

(***************************************************************************)
(* sessionStorage and JSON.                                                 *)
(***************************************************************************)
\* The state key without the separator between id and index.
StorageKeyOfUnseparated(c, q) == "timer_state_" \o c \o ToString(q)
\* `timer_state_${candidateId}_${questionIndex}`
StorageKeyOf(c, q) == "timer_state_" \o c \o "_" \o ToString(q)
\* `session_start_${candidateId}_${questionIndex}`
SessionKeyOf(c, q) == "session_start_" \o c \o "_" \o ToString(q)
\* `${candidateId}_${questionIndex}`
RegistryKeyOf(c, q) == c \o "_" \o ToString(q)

\* getItem(k) returned a non-null value.
Has(st, k) == k \in DOMAIN st
\* setItem(k, v)
SetItem(st, k, v) == [x \in (DOMAIN st) \cup {k} |-> IF x = k THEN v ELSE st[x]]
\* removeItem(k)
RemoveItem(st, k) == [x \in (DOMAIN st) \ {k} |-> st[x]]
\* sessionStorage without the entries outside keys.
Restrict(st, keys) == [x \in (DOMAIN st) \cap keys |-> st[x]]
\* Whether the call throws under the storage mode.
GetThrows(mode) == mode = "denied"
SetThrows(mode) == mode \in {"quota", "denied"}
RemoveThrows(mode) == mode = "denied"

\* JSON.stringify of the object saveState builds.
JsonStringify(obj) ==
    [kind |-> "object", elapsedTime |-> obj.elapsedTime,
     isPaused |-> obj.isPaused, lastUpdated |-> obj.lastUpdated]
\* JSON.parse throws on text that is not JSON.
JsonParseThrows(doc) == doc.kind = "garbage"
\* Reading a property of the parsed value throws (the text was "null").
PropertyReadThrows(doc) == doc.kind = "null"
\* A property of the parsed object; undefined reads as NaN in arithmetic.
JsonField(doc, f) == IF f \in DOMAIN doc THEN doc[f] ELSE NaN

(***************************************************************************)
(* TimerStateManager: the methods as functions of the object, the storage   *)
(* and the clock.  Each returns the values it changes.                      *)
(***************************************************************************)
\* The object the constructor builds before it calls loadState().
NewTimer(c, q) ==
    [candidateId |-> c, questionIndex |-> q,
     storageKey |-> StorageKeyOf(c, q), sessionKey |-> SessionKeyOf(c, q),
     state |-> [startTime |-> Null, elapsedTime |-> 0, isPaused |-> FALSE,
                isActive |-> FALSE, lastUpdated |-> Null],
     listeners |-> <<>>,
     autoSaveInterval |-> Null]

\* getElapsedTime() without the isActive guard.
GetElapsedTimeIgnoresActive(t, clock) ==
    IF Falsy(t.state.startTime) THEN 0 ELSE clock - t.state.startTime

\* getElapsedTime() with the subtraction the wrong way round.
GetElapsedTimeReversed(t, clock) ==
    IF ~t.state.isActive \/ Falsy(t.state.startTime) THEN 0
    ELSE t.state.startTime - clock

\* getElapsedTime(): 0 unless active with a truthy start time, else now - startTime.
GetElapsedTime(t, clock) ==
    IF ~t.state.isActive \/ Falsy(t.state.startTime) THEN 0
    ELSE clock - t.state.startTime

\* String.prototype.padStart(n, ch) on a string of characters.
RECURSIVE PadStart(_, _, _)
PadStart(str, n, ch) == IF Len(str) >= n THEN str ELSE PadStart(<<ch>> \o str, n, ch)

\* A number in a template literal or under toString(): NaN prints as "NaN".
NumberText(n) == IF n = NaN THEN <<"N", "a", "N">> ELSE NumberToString(n)

\* getFormattedTime() without padStart.
GetFormattedTimeUnpadded(t, clock) ==
    LET e == GetElapsedTime(t, clock)
        elapsed == IF e = NaN THEN NaN ELSE e \div 1000
        minutes == IF elapsed = NaN THEN NaN ELSE elapsed \div 60
        seconds == IF elapsed = NaN THEN NaN ELSE elapsed % 60
    IN NumberText(minutes) \o <<":">> \o NumberText(seconds)

\* getFormattedTime(): `${minutes}:${seconds.toString().padStart(2, '0')}` of
\* the whole seconds of getElapsedTime() (a non-negative number or NaN).
GetFormattedTime(t, clock) ==
    LET e == GetElapsedTime(t, clock)
        elapsed == IF e = NaN THEN NaN ELSE e \div 1000      \* Math.floor(e / 1000)
        minutes == IF elapsed = NaN THEN NaN ELSE elapsed \div 60
        seconds == IF elapsed = NaN THEN NaN ELSE elapsed % 60
    IN NumberText(minutes) \o <<":">> \o PadStart(NumberText(seconds), 2, "0")

\* The window test with <= in place of <.
RestoreSucceedsInclusive(t, st, mode, clock) ==
    /\ ~GetThrows(mode)
    /\ Has(st, t.storageKey) /\ Has(st, t.sessionKey)
    /\ Len(st[t.sessionKey]) > 0
    /\ ~JsonParseThrows(st[t.storageKey])
    /\ ~LessThan(SessionWindow, Minus(clock, ParseInt(st[t.sessionKey])))
    /\ Minus(clock, ParseInt(st[t.sessionKey])) # NaN
    /\ ~PropertyReadThrows(st[t.storageKey])

\* The try block of loadState() reaches "return true": both entries are
\* there, nothing throws and the session is younger than the window.
RestoreSucceeds(t, st, mode, clock) ==
    /\ ~GetThrows(mode)
    /\ Has(st, t.storageKey) /\ Has(st, t.sessionKey)
    /\ Len(st[t.sessionKey]) > 0
    /\ ~JsonParseThrows(st[t.storageKey])
    /\ LessThan(Minus(clock, ParseInt(st[t.sessionKey])), SessionWindow)
    /\ ~PropertyReadThrows(st[t.storageKey])

\* The restored state with the clock as start time: the record's elapsed
\* time is not subtracted.
RestoredStateStartsNow(doc, clock) ==
    [startTime |-> clock,
     elapsedTime |-> JsonField(doc, "elapsedTime"),
     isPaused |-> doc.isPaused,
     isActive |-> TRUE,
     lastUpdated |-> doc.lastUpdated]

\* The state object loadState() builds from the parsed record: its fields,
\* then startTime and isActive.  A missing elapsedTime reads as NaN.
RestoredState(doc, clock) ==
    [startTime |-> Minus(clock, JsonField(doc, "elapsedTime")),
     elapsedTime |-> JsonField(doc, "elapsedTime"),
     isPaused |-> doc.isPaused,
     isActive |-> TRUE,
     lastUpdated |-> doc.lastUpdated]

\* loadState() that writes the session-start marker on a restore as well.
LoadStateRenewsMarker(t, st, mode, clock) ==
    IF RestoreSucceeds(t, st, mode, clock)
    THEN [timer |-> [t EXCEPT !.state = RestoredState(st[t.storageKey], clock)],
          storage |-> SetItem(st, t.sessionKey, NumberToString(clock)),
          threw |-> FALSE, restored |-> TRUE]
    ELSE [timer |-> [t EXCEPT !.state.startTime = clock, !.state.isActive = TRUE],
          storage |-> IF SetThrows(mode) THEN st
                      ELSE SetItem(st, t.sessionKey, NumberToString(clock)),
          threw |-> SetThrows(mode), restored |-> FALSE]

\* loadState(): restore, or start fresh and write the session-start marker.
\* threw: the exception of the setItem outside the try block leaves the
\* method (and the constructor).
LoadState(t, st, mode, clock) ==
    IF RestoreSucceeds(t, st, mode, clock)
    THEN [timer |-> [t EXCEPT !.state = RestoredState(st[t.storageKey], clock)],
          storage |-> st, threw |-> FALSE, restored |-> TRUE]
    ELSE [timer |-> [t EXCEPT !.state.startTime = clock, !.state.isActive = TRUE],
          storage |-> IF SetThrows(mode) THEN st
                      ELSE SetItem(st, t.sessionKey, NumberToString(clock)),
          threw |-> SetThrows(mode), restored |-> FALSE]

\* saveState() that writes the elapsedTime field of the state (the value
\* frozen at the last pause) in place of getElapsedTime().
SaveStateWritesField(t, st, mode, clock) ==
    IF SetThrows(mode) THEN st
    ELSE SetItem(st, t.storageKey,
                 JsonStringify([elapsedTime |-> t.state.elapsedTime,
                                isPaused |-> t.state.isPaused,
                                lastUpdated |-> clock]))

\* saveState(): the new storage; a throwing setItem is caught.
SaveState(t, st, mode, clock) ==
    IF SetThrows(mode) THEN st
    ELSE SetItem(st, t.storageKey,
                 JsonStringify([elapsedTime |-> GetElapsedTime(t, clock),
                                isPaused |-> t.state.isPaused,
                                lastUpdated |-> clock]))

\* saveState() without the try/catch: the exception of setItem leaves it.
SaveStateUncaught(t, st, mode, clock) == SetThrows(mode)

\* An exception leaves saveState(): one is raised inside the try block (by
\* setItem; getElapsedTime and JSON.stringify of two numbers and a boolean
\* raise none) and the catch block does not handle it.
SaveStateThrows(t, st, mode, clock) ==
    LET raised == SetThrows(mode)
        caught == raised        \* catch (error) { }
    IN raised /\ ~caught

\* listeners.add(l): a Set in insertion order.
SetAdd(seq, l) == IF \E j \in 1..Len(seq) : seq[j] = l THEN seq ELSE Append(seq, l)
\* listeners.delete(l)
SetDelete(seq, l) == SelectSeq(seq, LAMBDA x : x # l)

\* notifyListeners(): every listener in turn, each in its own try/catch.
\* calls: how often each listener was invoked; threw: an exception left it.
RECURSIVE NotifyFrom(_, _, _)
NotifyFrom(seq, j, calls) ==
    IF j > Len(seq) THEN [calls |-> calls, threw |-> FALSE]
    ELSE LET invoked == [calls EXCEPT ![seq[j]] = @ + 1]
             caught == ListenerThrows(seq[j])   \* catch (error) { }
         IN NotifyFrom(seq, j + 1, invoked)
NoCalls == [l \in Listeners |-> 0]

\* notifyListeners() without the try/catch: the first listener that throws
\* ends the forEach and its exception leaves the method.
RECURSIVE NotifyUncaughtFrom(_, _, _)
NotifyUncaughtFrom(seq, j, calls) ==
    IF j > Len(seq) THEN [calls |-> calls, threw |-> FALSE]
    ELSE LET invoked == [calls EXCEPT ![seq[j]] = @ + 1]
         IN IF ListenerThrows(seq[j]) THEN [calls |-> invoked, threw |-> TRUE]
            ELSE NotifyUncaughtFrom(seq, j + 1, invoked)
NotifyListenersUncaught(t) == NotifyUncaughtFrom(t.listeners, 1, NoCalls)

NotifyListeners(t) == NotifyFrom(t.listeners, 1, NoCalls)
NotNotified == [calls |-> NoCalls, threw |-> FALSE]

\* pause() without the test of isPaused: snapshots and notifies every time.
PauseUnguarded(t, clock) ==
    LET t1 == [t EXCEPT !.state.isPaused = TRUE]
        t2 == [t1 EXCEPT !.state.elapsedTime = GetElapsedTime(t1, clock)]
    IN [timer |-> t2, note |-> NotifyListeners(t2), effective |-> TRUE]

\* pause(): [timer, note, effective].
Pause(t, clock) ==
    IF t.state.isPaused
    THEN [timer |-> t, note |-> NotNotified, effective |-> FALSE]
    ELSE LET t1 == [t EXCEPT !.state.isPaused = TRUE]
             t2 == [t1 EXCEPT !.state.elapsedTime = GetElapsedTime(t1, clock)]
         IN [timer |-> t2, note |-> NotifyListeners(t2), effective |-> TRUE]

\* resume() that clears the flag and leaves startTime as it was.
ResumeKeepsStartTime(t, clock) ==
    IF ~t.state.isPaused
    THEN [timer |-> t, note |-> NotNotified, effective |-> FALSE]
    ELSE LET t1 == [t EXCEPT !.state.isPaused = FALSE]
         IN [timer |-> t1, note |-> NotifyListeners(t1), effective |-> TRUE]

\* resume(): [timer, note, effective].
Resume(t, clock) ==
    IF ~t.state.isPaused
    THEN [timer |-> t, note |-> NotNotified, effective |-> FALSE]
    ELSE LET t1 == [t EXCEPT !.state.startTime = Minus(clock, t.state.elapsedTime),
                             !.state.isPaused = FALSE]
         IN [timer |-> t1, note |-> NotifyListeners(t1), effective |-> TRUE]

\* clearInterval(id)
ClearInterval(ivs, id) == {iv \in ivs : iv.id # id}
\* setInterval(...) returns a handle no live interval has.
FreshInterval(ivs) == CHOOSE n \in 1..(Cardinality(ivs) + 1) : \A iv \in ivs : iv.id # n

\* stop() that cancels the interval and forgets to null the handle, and
\* leaves the session-start marker in storage.
StopLeavesMarker(t, st, mode, ivs) ==
    LET t1 == [t EXCEPT !.state.isActive = FALSE, !.state.isPaused = TRUE]
    IN IF RemoveThrows(mode)
       THEN [timer |-> t1, storage |-> st, intervals |-> ivs,
             note |-> NotNotified, notified |-> FALSE, threw |-> TRUE]
       ELSE LET n == NotifyListeners(t1)
            IN [timer |-> t1, storage |-> RemoveItem(st, t.storageKey),
                intervals |-> IF t.autoSaveInterval # Null
                              THEN ClearInterval(ivs, t.autoSaveInterval) ELSE ivs,
                note |-> n, notified |-> TRUE, threw |-> n.threw]

\* stop(): [timer, storage, intervals, note, notified, threw].  A throwing removeItem
\* leaves the method after the two flags are set.
Stop(t, st, mode, ivs) ==
    LET t1 == [t EXCEPT !.state.isActive = FALSE, !.state.isPaused = TRUE]
    IN IF RemoveThrows(mode)
       THEN [timer |-> t1, storage |-> st, intervals |-> ivs,
             note |-> NotNotified, notified |-> FALSE, threw |-> TRUE]
       ELSE LET st1 == RemoveItem(RemoveItem(st, t.storageKey), t.sessionKey)
                t2 == [t1 EXCEPT !.autoSaveInterval = Null]
                ivs1 == IF t.autoSaveInterval # Null
                        THEN ClearInterval(ivs, t.autoSaveInterval) ELSE ivs
                n == NotifyListeners(t2)
            IN [timer |-> t2, storage |-> st1, intervals |-> ivs1,
                note |-> n, notified |-> TRUE, threw |-> n.threw]

\* startAutoSave() that schedules the new interval without clearing the one
\* it has.
StartAutoSaveLeaks(t, owner, ivs) ==
    LET id == FreshInterval(ivs)
    IN [timer |-> [t EXCEPT !.autoSaveInterval = id],
        intervals |-> ivs \cup {[id |-> id, owner |-> owner]}]

\* startAutoSave(): [timer, intervals]; owner is the object the interval's
\* callback closes over.
StartAutoSave(t, owner, ivs) ==
    LET ivs1 == IF t.autoSaveInterval # Null
                THEN ClearInterval(ivs, t.autoSaveInterval) ELSE ivs
        id == FreshInterval(ivs1)
    IN [timer |-> [t EXCEPT !.autoSaveInterval = id],
        intervals |-> ivs1 \cup {[id |-> id, owner |-> owner]}]

\* The interval callback without its test: saveState() on every tick.
AutoSaveCallbackUnguarded(t, st, mode, clock) == SaveState(t, st, mode, clock)

\* The interval callback: saveState() only while active and not paused.
AutoSaveCallback(t, st, mode, clock) ==
    IF t.state.isActive /\ ~t.state.isPaused THEN SaveState(t, st, mode, clock)
    ELSE st

\* handleVisibilityChange() that pauses a hidden page's timer without saving.
HandleVisibilityChangeWithoutSave(t, st, mode, clock, docHidden) ==
    IF docHidden
    THEN LET p == Pause(t, clock)
         IN [timer |-> p.timer, storage |-> st,
             note |-> p.note, effective |-> p.effective]
    ELSE LET r == Resume(t, clock)
         IN [timer |-> r.timer, storage |-> st, note |-> r.note,
             effective |-> r.effective]

\* handleVisibilityChange() that does nothing when the page is visible.
HandleVisibilityChangePauseOnly(t, st, mode, clock, docHidden) ==
    IF docHidden
    THEN LET p == Pause(t, clock)
         IN [timer |-> p.timer,
             storage |-> SaveState(p.timer, st, mode, clock),
             note |-> p.note, effective |-> p.effective]
    ELSE [timer |-> t, storage |-> st, note |-> NotNotified,
          effective |-> FALSE]

\* handleVisibilityChange(): [timer, storage, note, effective].
HandleVisibilityChange(t, st, mode, clock, docHidden) ==
    IF docHidden
    THEN LET p == Pause(t, clock)
         IN [timer |-> p.timer,
             storage |-> SaveState(p.timer, st, mode, clock),
             note |-> p.note, effective |-> p.effective]
    ELSE LET r == Resume(t, clock)
         IN [timer |-> r.timer, storage |-> st, note |-> r.note,
             effective |-> r.effective]

(***************************************************************************)
(* Observations.  last describes the operation that led to the current      *)
(* state as its caller saw it (only for the operations whose outcome is     *)
(* observed: construction, stop, unsubscribe, notifications, a saveState()  *)
(* whose write failed, an interval tick, a pause() or resume() without      *)
(* effect on an object with listeners, the string TimerUtils returned);     *)
(* hist remembers, per object, the elapsed time read at the last pause()    *)
(* and resume() and whether stop() ran.                                     *)
(***************************************************************************)
Obs(op, inst) ==
    [op |-> op, inst |-> inst, threw |-> FALSE,
     restored |-> FALSE,    \* construct: loadState() returned true
     hadRecord |-> FALSE,   \* construct: a state record was in storage
     age |-> Null,          \* construct: now - parseInt(marker), Null if no marker
     recElapsed |-> Null,   \* construct: elapsedTime of the record
     recPaused |-> FALSE,   \* construct: isPaused of the record
     unloadE |-> Null,      \* construct: elapsed time of the key at the unload
     unloadGap |-> Null,    \* construct: time since that unload
     cleanedInst |-> Null,  \* construct: the instance cleanupTimer had removed
     cleanedE |-> Null,     \* construct: its elapsed time at the cleanup
     text |-> <<>>,         \* getFormattedTime: the string returned
     again |-> FALSE,       \* stop: the call before was stop() on this object;
                            \* unsubscribe: the closure had been called before
     listener |-> "none",   \* unsubscribe: the listener the closure holds
     notified |-> {},       \* objects whose notifyListeners() ran
     registered |-> <<>>,   \* per notified object: its listeners at that time
     calls |-> <<>>]        \* per notified object: listener -> invocations
NoObs == Obs("none", 0)

HistInit ==
    [pausedE |-> Null,      \* getElapsedTime() when pause() took effect
     waited |-> FALSE,      \* the clock advanced since that pause()
     resumedE |-> Null,     \* pausedE of the pause that resume() ended
     resumedT |-> Null,     \* Date.now() at that resume()
     resumedLate |-> FALSE, \* the clock had advanced during that pause
     stopped |-> FALSE]     \* stop() was called

\* t is the object before the call, p what Pause returned.
HistPause(h, t, p, clock) ==
    IF ~p.effective THEN h
    ELSE [h EXCEPT !.pausedE = IF t.state.isActive THEN GetElapsedTime(t, clock)
                               ELSE Null,
                   !.waited = FALSE, !.resumedE = Null, !.resumedT = Null,
                   !.resumedLate = FALSE]

HistResume(h, r, clock) ==
    IF ~r.effective THEN h
    ELSE [h EXCEPT !.pausedE = Null, !.waited = FALSE,
                   !.resumedE = h.pausedE,
                   !.resumedT = IF h.pausedE # Null THEN clock ELSE Null,
                   !.resumedLate = h.pausedE # Null /\ h.waited]

HistStop(h) ==
    [HistInit EXCEPT !.stopped = TRUE]

HistTick(h) ==
    IF h.pausedE # Null THEN [h EXCEPT !.waited = TRUE] ELSE h

\* last after a call on object i, t before the call; ran: notifyListeners()
\* was reached, with the outcome note.
ObsNote(op, i, t, ran, note) ==
    IF ran
    THEN [Obs(op, i) EXCEPT !.threw = note.threw,
                            !.notified = {i},
                            !.registered = [x \in {i} |-> t.listeners],
                            !.calls = [x \in {i} |-> note.calls]]
    ELSE Obs(op, i)

\* last after a call on object i that returned at once: observed by the
\* listeners of t, which were not called; nothing to observe without any.
ObsNoOp(op, i, t) == IF t.listeners # <<>> THEN Obs(op, i) ELSE NoObs

(***************************************************************************)
(* GlobalTimerManager.  activeTimers is a Map: entries in insertion order.  *)
(* The page reaches its timers through the registry: an object that         *)
(* cleanupTimer removed is no longer used and leaves the model.             *)
(***************************************************************************)
MapHas(m, k) == \E j \in 1..Len(m) : m[j].key = k
MapGet(m, k) == m[CHOOSE j \in 1..Len(m) : m[j].key = k].timer
MapSet(m, k, v) ==
    IF MapHas(m, k)
    THEN [j \in 1..Len(m) |-> IF m[j].key = k THEN [key |-> k, timer |-> v] ELSE m[j]]
    ELSE Append(m, [key |-> k, timer |-> v])
\* activeTimers.delete(key) that removes nothing.
MapDeleteNothing(m, k) == m
MapDelete(m, k) == SelectSeq(m, LAMBDA e : e.key # k)

\* The value getTimer(c, q) returns: this.activeTimers.get(key).
GetTimerReturns(m, c, q) == MapGet(m, RegistryKeyOf(c, q))

InPage == page = "live"
Insts == DOMAIN timers
Without(f, i) == [x \in (DOMAIN f) \ {i} |-> f[x]]
With(f, i, v) == [x \in (DOMAIN f) \cup {i} |-> IF x = i THEN v ELSE f[x]]

\* The listeners of a new document and window: none.
NoGlobalListeners == [visibilitychange |-> 0, beforeunload |-> 0]

\* setupGlobalListeners() that adds each listener twice.
SetupGlobalListenersTwice(g) ==
    [visibilitychange |-> g.visibilitychange + 2,
     beforeunload |-> g.beforeunload + 2]

\* setupGlobalListeners(): one more listener of document's visibilitychange
\* and one more of window's beforeunload.  Only the constructor calls it.
SetupGlobalListeners(g) ==
    [visibilitychange |-> g.visibilitychange + 1,
     beforeunload |-> g.beforeunload + 1]

(***************************************************************************)
(* The analytics store (zustand create with the persist middleware).  An    *)
(* optional string is a sequence: empty for undefined, else the string.     *)
(***************************************************************************)
Undefined == <<>>
Some(str) == <<str>>

\* Values of VITE_ANALYTICS_TENANT / NEXT_PUBLIC_ANALYTICS_TENANT: not set,
\* empty, a tenant.
EnvValues == {Undefined, Some(""), Some("acme")}
\* Arguments of setTenant and setSelectedJob.
Tenants == {"acme", "globex", ""}
JobCodes == {Undefined, Some("JD-100"), Some("JD-200"), Some("JD-300")}

\* readEnv(keys): the first value that is a non-empty string.
ReadEnv(raw) == IF raw # Undefined /\ raw[1] # "" THEN raw ELSE Undefined
\* env.defaultTenant
DefaultTenant(raw) == ReadEnv(raw)

\* The state the creator function returns.
InitialState(raw) == [tenant |-> DefaultTenant(raw), selectedJobCode |-> Undefined]

\* set(partial) that replaces the state by the partial.
SetReplaces(state, partial) ==
    [f \in DOMAIN state |-> IF f \in DOMAIN partial THEN partial[f] ELSE Undefined]

\* set(partial): the partial is merged into the state.
Set(state, partial) ==
    [f \in DOMAIN state |-> IF f \in DOMAIN partial THEN partial[f] ELSE state[f]]

\* What persist writes after a set: the state as JSON (JSON.stringify leaves
\* out the undefined fields) with the version.
NoItem == [version |-> 0]
PersistItem(state) == [version |-> 1, state |-> state]
\* Hydration at store creation: the fields of a stored item of this version
\* override the initial state.
Hydrate(initial, item) ==
    IF item.version # 1 THEN initial
    ELSE [f \in DOMAIN initial |->
             IF item.state[f] # Undefined THEN item.state[f] ELSE initial[f]]

NoCall == [op |-> "none", arg |-> Undefined]

InitStore(raw) ==
    /\ envTenant = raw
    /\ analytics = InitialState(raw)
    /\ persisted = NoItem
    /\ storeCall = NoCall

\* useAnalyticsStore.getState().setTenant(tenant)
SetTenant(tenant) ==
    /\ analytics' = Set(analytics, [tenant |-> Some(tenant)])
    /\ persisted' = PersistItem(analytics')
    /\ storeCall' = [op |-> "setTenant", arg |-> Some(tenant)]
    /\ UNCHANGED envTenant
    /\ UNCHANGED <<timerVars, chromeVars>>

\* useAnalyticsStore.getState().setSelectedJob(code)
SetSelectedJob(code) ==
    /\ analytics' = Set(analytics, [selectedJobCode |-> code])
    /\ persisted' = PersistItem(analytics')
    /\ storeCall' = [op |-> "setSelectedJob", arg |-> code]
    /\ UNCHANGED envTenant
    /\ UNCHANGED <<timerVars, chromeVars>>

\* The dashboard is loaded again: the store is created anew and hydrated
\* from localStorage.
StoreReload ==
    /\ analytics' = Hydrate(InitialState(envTenant), persisted)
    /\ storeCall' = [op |-> "create", arg |-> Undefined]
    /\ UNCHANGED <<envTenant, persisted>>
    /\ UNCHANGED <<timerVars, chromeVars>>

(***************************************************************************)
(* DashboardChrome (components/layout/dashboard-chrome.tsx): the tenant     *)
(* prop, the state hooks the tenant metadata is kept in, and the effect     *)
(* that fetches it.  chrome is the component as React last rendered it; a   *)
(* state update is rendered after the effects that are due have run, the    *)
(* updates applied in the order of the calls.                               *)
(***************************************************************************)
\* Values of the tenant prop (the first segment of the path).
ChromeTenants == {"acme", "globex"}

\* tenantMeta null; a response carries the tenant it was fetched for and the
\* effect run that fetched it.
NoMeta == [slug |-> "", fetch |-> 0]
MetaOf(efs, e) == [slug |-> efs[e].tenant, fetch |-> e]

\* How fetch() settles (res.ok, !res.ok, rejected) and how res.json() does.
FetchOutcomes == {"ok", "notOk", "rejects"}
JsonOutcomes == {"ok", "rejects"}

\* The first render: the initial values of the state hooks.
NewChrome(t) ==
    [tenant |-> t, tenantMeta |-> NoMeta, metaLoaded |-> FALSE,
     logoLoaded |-> FALSE, logoErrored |-> FALSE]

\* The dependency [tenant] differs from the one of the last run (or there
\* has been no run): the metadata effect is due.
EffectDue(c, efs) ==
    IF efs = <<>> THEN TRUE ELSE efs[Len(efs)].tenant # c.tenant

\* The head of the effect: the four resets.
ResetForTenant(c) ==
    [c EXCEPT !.tenantMeta = NoMeta, !.metaLoaded = FALSE,
              !.logoLoaded = FALSE, !.logoErrored = FALSE]

\* setTenantMeta(data) without the test of cancelled.
SetTenantMetaAlways(c, cancelled, data) == [c EXCEPT !.tenantMeta = data]

\* if (!cancelled) setTenantMeta(data)
SetTenantMeta(c, cancelled, data) ==
    IF cancelled THEN c ELSE [c EXCEPT !.tenantMeta = data]

\* finally: if (!cancelled) setMetaLoaded(true)
SetMetaLoaded(c, cancelled) ==
    IF cancelled THEN c ELSE [c EXCEPT !.metaLoaded = TRUE]

\* The cleanup of the last run: its closure's cancelled becomes true.
Cleanup(efs) ==
    IF efs = <<>> THEN efs ELSE [efs EXCEPT ![Len(efs)].cancelled = TRUE]

\* The effect runs for the tenant rendered: the cleanup of the run before,
\* the resets, and a new closure whose fetch is in flight.
RunEffect(c, efs) ==
    [chrome |-> ResetForTenant(c),
     effects |-> Append(Cleanup(efs),
                        [tenant |-> c.tenant, cancelled |-> FALSE,
                         phase |-> "fetch", got |-> "none",
                         seen |-> "none"])]

\* tenantMeta?.logo_url: each tenant's metadata names its own logo.
LogoUrl(c) == IF c.tenantMeta = NoMeta THEN <<>> ELSE <<c.tenantMeta.slug>>

\* The effect on [tenantMeta?.logo_url]: both logo flags are reset when the
\* url rendered differs from the one rendered before.
LogoEffect(before, c) ==
    IF LogoUrl(before) # LogoUrl(c)
    THEN [c EXCEPT !.logoLoaded = FALSE, !.logoErrored = FALSE]
    ELSE c

\* React renders the state c (before was rendered last): the metadata
\* effect runs first when it is due, then the logo effect.
Render(before, c, efs) ==
    LET r == IF EffectDue(c, efs) THEN RunEffect(c, efs)
             ELSE [chrome |-> c, effects |-> efs]
    IN [chrome |-> LogoEffect(before, r.chrome), effects |-> r.effects]

\* The closure of run e after its response was handled: got tells whether
\* it carried metadata, seen whether the setters were called or the response
\* was dropped.
Settled(efs, e, data) ==
    [efs EXCEPT ![e].phase = "done",
                ![e].got = IF data THEN "data" ELSE "error",
                ![e].seen = IF efs[e].cancelled THEN "dropped" ELSE "applied"]

InitChrome(t) ==
    /\ chrome = NewChrome(t)
    /\ effects = <<>>

\* The component is rendered with another tenant prop: the state hooks keep
\* their values and the metadata effect is due.
TenantChanges(t) ==
    /\ t # chrome.tenant
    /\ Len(effects) < MaxFetches
    /\ chrome' = [chrome EXCEPT !.tenant = t]
    /\ UNCHANGED effects
    /\ UNCHANGED <<timerVars, storeVars>>

\* React runs the effects of the last render.
FlushEffects ==
    /\ EffectDue(chrome, effects)
    /\ LET r == Render(chrome, chrome, effects)
       IN /\ chrome' = r.chrome
          /\ effects' = r.effects
    /\ UNCHANGED <<timerVars, storeVars>>

\* The fetch of run e settles: with res.ok the function goes on to
\* res.json(); otherwise it returns (or catches) and the finally block runs.
FetchResolves(e, outcome) ==
    /\ e \in 1..Len(effects) /\ effects[e].phase = "fetch"
    /\ IF outcome = "ok"
       THEN /\ effects' = [effects EXCEPT ![e].phase = "json"]
            /\ UNCHANGED chrome
       ELSE LET c == SetMetaLoaded(chrome, effects[e].cancelled)
                r == IF c = chrome
                     THEN [chrome |-> chrome,
                           effects |-> Settled(effects, e, FALSE)]
                     ELSE Render(chrome, c, Settled(effects, e, FALSE))
            IN /\ chrome' = r.chrome
               /\ effects' = r.effects
    /\ UNCHANGED <<timerVars, storeVars>>

\* res.json() of run e settles: the data is set (or the rejection caught)
\* and the finally block runs.
JsonResolves(e, outcome) ==
    /\ e \in 1..Len(effects) /\ effects[e].phase = "json"
    /\ LET c1 == IF outcome = "ok"
                 THEN SetTenantMeta(chrome, effects[e].cancelled,
                                    MetaOf(effects, e))
                 ELSE chrome
           c == SetMetaLoaded(c1, effects[e].cancelled)
           done == Settled(effects, e, outcome = "ok")
           r == IF c = chrome
                THEN [chrome |-> chrome, effects |-> done]
                ELSE Render(chrome, c, done)
       IN /\ chrome' = r.chrome
          /\ effects' = r.effects
    /\ UNCHANGED <<timerVars, storeVars>>

\* The logo image, rendered once the metadata is loaded, loads.
LogoLoads ==
    /\ chrome.metaLoaded /\ LogoUrl(chrome) # <<>> /\ ~chrome.logoErrored
    /\ ~chrome.logoLoaded
    /\ LET r == Render(chrome, [chrome EXCEPT !.logoLoaded = TRUE], effects)
       IN /\ chrome' = r.chrome
          /\ effects' = r.effects
    /\ UNCHANGED <<timerVars, storeVars>>

\* The logo image fails to load.
LogoErrors ==
    /\ chrome.metaLoaded /\ LogoUrl(chrome) # <<>> /\ ~chrome.logoErrored
    /\ LET r == Render(chrome, [chrome EXCEPT !.logoErrored = TRUE,
                                             !.logoLoaded = FALSE], effects)
       IN /\ chrome' = r.chrome
          /\ effects' = r.effects
    /\ UNCHANGED <<timerVars, storeVars>>

(***************************************************************************)
(* Actions: one per call the page makes and per event the browser delivers. *)
(***************************************************************************)
InitTimers ==
    /\ now = Epoch
    /\ ticks = 0
    /\ reloads = 0
    /\ page = "live"
    /\ hidden = FALSE
    /\ storageMode = "ok"
    /\ storage = [k \in {} |-> <<>>]
    /\ nextInst = 0
    /\ timers = [i \in {} |-> <<>>]
    /\ activeTimers = <<>>
    /\ intervals = {}
    /\ unsubs = <<>>
    /\ last = NoObs
    /\ hist = [i \in {} |-> <<>>]
    /\ unloaded = [k \in {} |-> 0]
    /\ cleaned = [k \in {} |-> 0]
    /\ globalListeners = SetupGlobalListeners(NoGlobalListeners)

\* The timer page after its script has run; the dashboard store as created
\* by a build without a default tenant.
Init == InitTimers /\ InitStore(Undefined) /\ InitChrome("acme")

\* The dashboard store as created by any build.
InitAnalytics ==
    InitTimers /\ InitChrome("acme") /\ \E raw \in EnvValues : InitStore(raw)

\* What the constructor found in storage, for last.
ObsConstruct(t, i, ld, key) ==
    LET hasRec == Has(storage, t.storageKey)
        doc == storage[t.storageKey]
    IN [Obs("construct", i) EXCEPT
           !.threw = ld.threw,
           !.restored = ld.restored,
           !.hadRecord = hasRec,
           !.age = IF Has(storage, t.sessionKey)
                   THEN Minus(now, ParseInt(storage[t.sessionKey])) ELSE Null,
           !.recElapsed = IF hasRec /\ doc.kind = "object"
                          THEN JsonField(doc, "elapsedTime") ELSE Null,
           !.recPaused = hasRec /\ doc.kind = "object" /\ doc.isPaused,
           !.unloadE = IF key \in DOMAIN unloaded THEN unloaded[key].elapsed
                       ELSE Null,
           !.unloadGap = IF key \in DOMAIN unloaded THEN now - unloaded[key].at
                         ELSE Null,
           !.cleanedInst = IF key \in DOMAIN cleaned THEN cleaned[key].inst
                           ELSE Null,
           !.cleanedE = IF key \in DOMAIN cleaned THEN cleaned[key].elapsed
                        ELSE Null]

\* getTimer(c, q) without the has() test: every call constructs a manager
\* and stores it under the key.
CallGetTimerAlwaysConstructs(c, q) ==
    LET key == RegistryKeyOf(c, q)
        i == nextInst + 1
        t0 == NewTimer(c, q)
        ld == LoadState(t0, storage, storageMode, now)
        sa == StartAutoSave(ld.timer, i, intervals)
    IN /\ InPage
       /\ i <= MaxInst
       /\ nextInst' = i
       /\ last' = ObsConstruct(t0, i, ld, key)
       /\ storage' = ld.storage
       /\ unloaded' = Without(unloaded, key)
       /\ cleaned' = Without(cleaned, key)
       /\ IF ld.threw
          THEN UNCHANGED <<timers, activeTimers, intervals, hist>>
          ELSE /\ timers' = With(timers, i, sa.timer)
               /\ hist' = With(hist, i, HistInit)
               /\ intervals' = sa.intervals
               /\ activeTimers' = MapSet(activeTimers, key, i)
       /\ UNCHANGED <<globalListeners, storeVars, chromeVars>>
       /\ UNCHANGED <<now, ticks, reloads, page, hidden, storageMode, unsubs>>

\* timerManager.getTimer(c, q): the registered object, or a new one that is
\* constructed, has its auto-save started and is registered.  An exception
\* of the constructor leaves getTimer before anything is registered.
CallGetTimer(c, q) ==
    LET key == RegistryKeyOf(c, q) IN
    /\ InPage
    /\ IF MapHas(activeTimers, key)
       THEN /\ last' = NoObs
            /\ UNCHANGED <<storage, nextInst, timers, activeTimers, intervals,
                           hist, unloaded, cleaned>>
       ELSE LET i == nextInst + 1
                t0 == NewTimer(c, q)
                ld == LoadState(t0, storage, storageMode, now)
                sa == StartAutoSave(ld.timer, i, intervals)
            IN /\ i <= MaxInst
               /\ nextInst' = i
               /\ last' = ObsConstruct(t0, i, ld, key)
               /\ storage' = ld.storage
               /\ unloaded' = Without(unloaded, key)
               /\ cleaned' = Without(cleaned, key)
               /\ IF ld.threw
                  THEN UNCHANGED <<timers, activeTimers, intervals, hist>>
                  ELSE /\ timers' = With(timers, i, sa.timer)
                       /\ hist' = With(hist, i, HistInit)
                       /\ intervals' = sa.intervals
                       /\ activeTimers' = MapSet(activeTimers, key, i)
    /\ UNCHANGED <<globalListeners, storeVars, chromeVars>>
    /\ UNCHANGED <<now, ticks, reloads, page, hidden, storageMode, unsubs>>

\* timerManager.cleanupTimer(c, q): stop and forget the registered object.
\* An exception of stop() leaves cleanupTimer before the entry is deleted.
CallCleanupTimer(c, q) ==
    LET key == RegistryKeyOf(c, q) IN
    /\ InPage
    /\ IF MapHas(activeTimers, key)
       THEN LET i == MapGet(activeTimers, key)
                s == Stop(timers[i], storage, storageMode, intervals)
            IN /\ storage' = s.storage
               /\ intervals' = s.intervals
               /\ last' = [ObsNote("cleanupTimer", i, timers[i], s.notified, s.note)
                              EXCEPT !.threw = s.threw]
               /\ IF s.threw
                  THEN /\ timers' = [timers EXCEPT ![i] = s.timer]
                       /\ hist' = [hist EXCEPT ![i] = HistStop(@)]
                       /\ UNCHANGED <<activeTimers, unsubs, cleaned>>
                  ELSE /\ timers' = Without(timers, i)
                       /\ hist' = Without(hist, i)
                       /\ activeTimers' = MapDelete(activeTimers, key)
                       /\ unsubs' = SelectSeq(unsubs, LAMBDA u : u.inst # i)
                       /\ cleaned' = With(cleaned, key,
                              [inst |-> i,
                               elapsed |-> GetElapsedTime(timers[i], now)])
       ELSE /\ last' = Obs("cleanupTimer", 0)
            /\ UNCHANGED <<storage, timers, activeTimers, intervals, hist, unsubs,
                           cleaned>>
    /\ UNCHANGED <<globalListeners, storeVars, chromeVars>>
    /\ UNCHANGED <<now, ticks, reloads, page, hidden, storageMode, nextInst,
                   unloaded>>

\* timer.pause()
CallPause(i) ==
    /\ InPage /\ i \in Insts
    /\ LET p == Pause(timers[i], now)
       IN /\ timers' = [timers EXCEPT ![i] = p.timer]
          /\ hist' = [hist EXCEPT ![i] = HistPause(@, timers[i], p, now)]
          /\ last' = IF p.effective THEN ObsNote("pause", i, timers[i], TRUE, p.note)
                     ELSE ObsNoOp("pauseNoOp", i, timers[i])
    /\ UNCHANGED <<globalListeners, storeVars, chromeVars>>
    /\ UNCHANGED <<now, ticks, reloads, page, hidden, storageMode, storage,
                   nextInst, activeTimers, intervals, unsubs, unloaded,
                   cleaned>>

\* timer.resume()
CallResume(i) ==
    /\ InPage /\ i \in Insts
    /\ LET r == Resume(timers[i], now)
       IN /\ timers' = [timers EXCEPT ![i] = r.timer]
          /\ hist' = [hist EXCEPT ![i] = HistResume(@, r, now)]
          /\ last' = IF r.effective THEN ObsNote("resume", i, timers[i], TRUE, r.note)
                     ELSE ObsNoOp("resumeNoOp", i, timers[i])
    /\ UNCHANGED <<globalListeners, storeVars, chromeVars>>
    /\ UNCHANGED <<now, ticks, reloads, page, hidden, storageMode, storage,
                   nextInst, activeTimers, intervals, unsubs, unloaded,
                   cleaned>>

\* timer.stop()
CallStop(i) ==
    /\ InPage /\ i \in Insts
    /\ LET s == Stop(timers[i], storage, storageMode, intervals)
       IN /\ timers' = [timers EXCEPT ![i] = s.timer]
          /\ storage' = s.storage
          /\ intervals' = s.intervals
          /\ hist' = [hist EXCEPT ![i] = HistStop(@)]
          /\ last' = [ObsNote("stop", i, timers[i], s.notified, s.note) EXCEPT
                         !.threw = s.threw,
                         !.again = last.op = "stop" /\ last.inst = i]
    /\ UNCHANGED <<globalListeners, storeVars, chromeVars>>
    /\ UNCHANGED <<now, ticks, reloads, page, hidden, storageMode, nextInst,
                   activeTimers, unsubs, unloaded, cleaned>>

\* timer.saveState()
CallSaveState(i) ==
    /\ InPage /\ i \in Insts
    /\ storage' = SaveState(timers[i], storage, storageMode, now)
    /\ last' = IF SetThrows(storageMode)
               THEN [Obs("saveState", i) EXCEPT
                        !.threw = SaveStateThrows(timers[i], storage, storageMode, now)]
               ELSE NoObs
    /\ UNCHANGED <<globalListeners, storeVars, chromeVars>>
    /\ UNCHANGED <<now, ticks, reloads, page, hidden, storageMode, nextInst,
                   timers, activeTimers, intervals, unsubs, hist, unloaded,
                   cleaned>>

\* timer.getFormattedTime()
CallGetFormattedTime(i) ==
    /\ InPage /\ i \in Insts
    /\ last' = [Obs("getFormattedTime", i) EXCEPT
                   !.text = GetFormattedTime(timers[i], now)]
    /\ UNCHANGED <<globalListeners, storeVars, chromeVars>>
    /\ UNCHANGED <<now, ticks, reloads, page, hidden, storageMode, storage,
                   nextInst, timers, activeTimers, intervals, unsubs, hist,
                   unloaded, cleaned>>

\* TimerUtils.getFormattedTime(c, q) as a read: the time of the registered
\* timer, "0:00" when there is none, and nothing constructed.
CallUtilsGetFormattedTimeReadOnly(c, q) ==
    LET key == RegistryKeyOf(c, q) IN
    /\ InPage
    /\ last' = IF MapHas(activeTimers, key)
               THEN [Obs("utilsGetFormattedTime", MapGet(activeTimers, key))
                        EXCEPT !.text = GetFormattedTime(
                                   timers[MapGet(activeTimers, key)], now)]
               ELSE [Obs("utilsGetFormattedTime", 0)
                        EXCEPT !.text = <<"0", ":", "0", "0">>]
    /\ UNCHANGED <<globalListeners, storeVars, chromeVars>>
    /\ UNCHANGED <<now, ticks, reloads, page, hidden, storageMode, storage,
                   nextInst, timers, activeTimers, intervals, unsubs, hist,
                   unloaded, cleaned>>

\* TimerUtils.getFormattedTime(c, q): timerManager.getTimer(c, q), then
\* getFormattedTime() of the timer it returned.  On a key that is not
\* registered getTimer constructs, starts the auto-save and registers; an
\* exception of the constructor leaves the call.
CallUtilsGetFormattedTime(c, q) ==
    LET key == RegistryKeyOf(c, q) IN
    /\ InPage
    /\ IF MapHas(activeTimers, key)
       THEN /\ last' = [Obs("utilsGetFormattedTime", MapGet(activeTimers, key))
                           EXCEPT !.text = GetFormattedTime(
                                      timers[MapGet(activeTimers, key)], now)]
            /\ UNCHANGED <<storage, nextInst, timers, activeTimers, intervals,
                           hist, unloaded, cleaned>>
       ELSE LET i == nextInst + 1
                t0 == NewTimer(c, q)
                ld == LoadState(t0, storage, storageMode, now)
                sa == StartAutoSave(ld.timer, i, intervals)
            IN /\ i <= MaxInst
               /\ nextInst' = i
               /\ last' = [ObsConstruct(t0, i, ld, key) EXCEPT
                              !.op = "utilsGetFormattedTime",
                              !.text = IF ld.threw THEN <<>>
                                       ELSE GetFormattedTime(sa.timer, now)]
               /\ storage' = ld.storage
               /\ unloaded' = Without(unloaded, key)
               /\ cleaned' = Without(cleaned, key)
               /\ IF ld.threw
                  THEN UNCHANGED <<timers, activeTimers, intervals, hist>>
                  ELSE /\ timers' = With(timers, i, sa.timer)
                       /\ hist' = With(hist, i, HistInit)
                       /\ intervals' = sa.intervals
                       /\ activeTimers' = MapSet(activeTimers, key, i)
    /\ UNCHANGED <<globalListeners, storeVars, chromeVars>>
    /\ UNCHANGED <<now, ticks, reloads, page, hidden, storageMode, unsubs>>

\* timer.startAutoSave()
CallStartAutoSave(i) ==
    /\ InPage /\ i \in Insts
    /\ LET sa == StartAutoSave(timers[i], i, intervals)
       IN /\ timers' = [timers EXCEPT ![i] = sa.timer]
          /\ intervals' = sa.intervals
    /\ last' = NoObs
    /\ UNCHANGED <<globalListeners, storeVars, chromeVars>>
    /\ UNCHANGED <<now, ticks, reloads, page, hidden, storageMode, storage,
                   nextInst, activeTimers, unsubs, hist, unloaded, cleaned>>

\* A scheduled interval fires its callback.
IntervalFires(iv) ==
    /\ InPage /\ iv \in intervals
    /\ storage' = AutoSaveCallback(timers[iv.owner], storage, storageMode, now)
    /\ last' = Obs("autoSave", iv.owner)
    /\ UNCHANGED <<globalListeners, storeVars, chromeVars>>
    /\ UNCHANGED <<now, ticks, reloads, page, hidden, storageMode, nextInst,
                   timers, activeTimers, intervals, unsubs, hist, unloaded,
                   cleaned>>

\* timer.handleVisibilityChange(), called with the document as it is.
CallHandleVisibilityChange(i) ==
    /\ InPage /\ i \in Insts
    /\ LET t == timers[i]
           v == HandleVisibilityChange(t, storage, storageMode, now, hidden)
       IN /\ timers' = [timers EXCEPT ![i] = v.timer]
          /\ storage' = v.storage
          /\ hist' = [hist EXCEPT ![i] = IF hidden THEN HistPause(@, t, v, now)
                                         ELSE HistResume(@, v, now)]
          /\ last' = IF v.effective
                     THEN ObsNote(IF hidden THEN "pause" ELSE "resume", i, t,
                                  TRUE, v.note)
                     ELSE NoObs
    /\ UNCHANGED <<globalListeners, storeVars, chromeVars>>
    /\ UNCHANGED <<now, ticks, reloads, page, hidden, storageMode, nextInst,
                   activeTimers, intervals, unsubs, unloaded, cleaned>>

\* The visibilitychange listener: activeTimers.forEach(handleVisibilityChange),
\* from entry j on.  acc carries [timers, hist, storage, notified, registered,
\* calls, threw, handled]; an exception of a handler ends the forEach;
\* handled lists the timers whose handler was called, in order.
RECURSIVE VisibilityFanOut(_, _, _)
VisibilityFanOut(j, docHidden, acc) ==
    IF j > Len(activeTimers) \/ acc.threw THEN acc
    ELSE LET i == activeTimers[j].timer
             t == acc.timers[i]
             v == HandleVisibilityChange(t, acc.storage, storageMode, now, docHidden)
         IN VisibilityFanOut(j + 1, docHidden,
                [timers |-> [acc.timers EXCEPT ![i] = v.timer],
                 hist |-> [acc.hist EXCEPT ![i] =
                              IF docHidden THEN HistPause(@, t, v, now)
                              ELSE HistResume(@, v, now)],
                 storage |-> v.storage,
                 notified |-> IF v.effective THEN acc.notified \cup {i}
                              ELSE acc.notified,
                 registered |-> IF v.effective
                                THEN With(acc.registered, i, t.listeners)
                                ELSE acc.registered,
                 calls |-> IF v.effective THEN With(acc.calls, i, v.note.calls)
                           ELSE acc.calls,
                 threw |-> v.note.threw,
                 handled |-> Append(acc.handled, i)])

\* The event goes to each of the n installed visibilitychange listeners.
RECURSIVE VisibilityDispatch(_, _, _)
VisibilityDispatch(n, docHidden, acc) ==
    IF n = 0 THEN acc
    ELSE LET f == VisibilityFanOut(1, docHidden, [acc EXCEPT !.threw = FALSE])
         IN VisibilityDispatch(n - 1, docHidden,
                               [f EXCEPT !.threw = acc.threw \/ f.threw])

\* What the visibilitychange event of the current state does.
VisibilityDelivery ==
    VisibilityDispatch(globalListeners.visibilitychange, ~hidden,
        [timers |-> timers, hist |-> hist, storage |-> storage,
         notified |-> {}, registered |-> <<>>, calls |-> <<>>,
         threw |-> FALSE, handled |-> <<>>])

\* The document becomes hidden or visible and dispatches visibilitychange.
VisibilityChangeEvent ==
    /\ InPage
    /\ hidden' = ~hidden
    /\ LET f == VisibilityDelivery
       IN /\ timers' = f.timers
          /\ hist' = f.hist
          /\ storage' = f.storage
          /\ last' = IF f.notified = {} THEN NoObs
                     ELSE [Obs(IF hidden THEN "resume" ELSE "pause", 0) EXCEPT
                              !.notified = f.notified,
                              !.registered = f.registered,
                              !.calls = f.calls, !.threw = f.threw]
    /\ UNCHANGED <<globalListeners, storeVars, chromeVars>>
    /\ UNCHANGED <<now, ticks, reloads, page, storageMode, nextInst,
                   activeTimers, intervals, unsubs, unloaded, cleaned>>

\* The beforeunload listener: activeTimers.forEach(saveState), from entry j
\* on.  acc carries [storage, handled]; handled lists the timers whose
\* saveState() was called, in order.
RECURSIVE UnloadFanOut(_, _)
UnloadFanOut(j, acc) ==
    IF j > Len(activeTimers) THEN acc
    ELSE LET i == activeTimers[j].timer
         IN UnloadFanOut(j + 1,
                [storage |-> SaveState(timers[i], acc.storage, storageMode, now),
                 handled |-> Append(acc.handled, i)])

\* The event goes to each of the n installed beforeunload listeners.
RECURSIVE UnloadDispatch(_, _)
UnloadDispatch(n, acc) ==
    IF n = 0 THEN acc ELSE UnloadDispatch(n - 1, UnloadFanOut(1, acc))

\* What the beforeunload event of the current state does.
UnloadDelivery ==
    UnloadDispatch(globalListeners.beforeunload,
                   [storage |-> storage, handled |-> <<>>])

\* The registered timers that are running, by registry key.
RunningKeys ==
    {activeTimers[j].key : j \in {x \in 1..Len(activeTimers) :
        LET t == timers[activeTimers[x].timer]
        IN t.state.isActive /\ ~t.state.isPaused}}

\* The page is about to be unloaded: the window dispatches beforeunload.
\* A behaviour has at most max page loads after the first.
BeforeUnload(max) ==
    /\ InPage /\ reloads < max
    /\ storage' = UnloadDelivery.storage
    /\ page' = "unloading"
    /\ unloaded' = [k \in RunningKeys |->
                       [elapsed |-> GetElapsedTime(timers[MapGet(activeTimers, k)], now),
                        at |-> now]]
    /\ last' = NoObs
    /\ UNCHANGED <<globalListeners, storeVars, chromeVars>>
    /\ UNCHANGED <<now, ticks, reloads, hidden, storageMode, nextInst, timers,
                   activeTimers, intervals, hist, unsubs, cleaned>>

BeforeUnloadEvent == BeforeUnload(MaxReloads)

\* The page is loaded again in the same tab: the script runs anew (an empty
\* registry with its listeners); sessionStorage is what the old page left.
PageReload ==
    /\ page = "unloading"
    /\ page' = "live"
    /\ reloads' = reloads + 1
    /\ hidden' = FALSE
    /\ nextInst' = 0
    /\ timers' = [i \in {} |-> <<>>]
    /\ hist' = [i \in {} |-> <<>>]
    /\ activeTimers' = <<>>
    /\ intervals' = {}
    /\ unsubs' = <<>>
    /\ cleaned' = [k \in {} |-> 0]
    /\ globalListeners' = SetupGlobalListeners(NoGlobalListeners)
    /\ last' = NoObs
    /\ UNCHANGED <<storeVars, chromeVars>>
    /\ UNCHANGED <<now, ticks, storageMode, storage, unloaded>>

\* Time passes.
Tick(d) ==
    /\ ticks < MaxTicks
    /\ now' = now + d
    /\ ticks' = ticks + 1
    /\ hist' = [i \in DOMAIN hist |-> HistTick(hist[i])]
    /\ last' = NoObs
    /\ UNCHANGED <<globalListeners, storeVars, chromeVars>>
    /\ UNCHANGED <<reloads, page, hidden, storageMode, storage, nextInst, timers,
                   activeTimers, intervals, unsubs, unloaded, cleaned>>

\* timer.subscribe(l): the closure it returns is kept in unsubs.
CallSubscribe(i, l) ==
    /\ InPage /\ i \in Insts
    /\ Len(unsubs) < MaxUnsubs
    /\ timers' = [timers EXCEPT ![i].listeners = SetAdd(@, l)]
    /\ unsubs' = Append(unsubs, [inst |-> i, listener |-> l, called |-> FALSE])
    /\ last' = NoObs
    /\ UNCHANGED <<globalListeners, storeVars, chromeVars>>
    /\ UNCHANGED <<now, ticks, reloads, page, hidden, storageMode, storage,
                   nextInst, activeTimers, intervals, hist, unloaded, cleaned>>

\* The closure body: this.listeners.delete(listener).
Unsubscribe(t, l) == [t EXCEPT !.listeners = SetDelete(@, l)]

\* A call of the j-th closure subscribe() returned.
CallUnsubscribe(j) ==
    /\ InPage /\ j \in 1..Len(unsubs)
    /\ LET u == unsubs[j]
       IN /\ timers' = [timers EXCEPT ![u.inst] = Unsubscribe(@, u.listener)]
          /\ unsubs' = [unsubs EXCEPT ![j].called = TRUE]
          /\ last' = [Obs("unsubscribe", u.inst) EXCEPT
                         !.again = u.called, !.listener = u.listener]
    /\ UNCHANGED <<globalListeners, storeVars, chromeVars>>
    /\ UNCHANGED <<now, ticks, reloads, page, hidden, storageMode, storage,
                   nextInst, activeTimers, intervals, hist, unloaded, cleaned>>

\* sessionStorage starts or stops throwing (quota reached, access denied).
StorageModeChanges(m) ==
    /\ m # storageMode
    /\ storageMode' = m
    /\ last' = NoObs
    /\ UNCHANGED <<globalListeners, storeVars, chromeVars>>
    /\ UNCHANGED <<now, ticks, reloads, page, hidden, storage, nextInst, timers,
                   activeTimers, intervals, unsubs, hist, unloaded, cleaned>>

\* Values another script may leave under a manager's keys.
CorruptRecords ==
    {[kind |-> "garbage"], [kind |-> "null"],
     [kind |-> "object", isPaused |-> FALSE, lastUpdated |-> Null]}
CorruptMarkers == {<<"x">>}

\* Something other than the timer code overwrites a state record.
CorruptRecord(c, q, v) ==
    /\ storage' = SetItem(storage, StorageKeyOf(c, q), v)
    /\ last' = NoObs
    /\ UNCHANGED <<globalListeners, storeVars, chromeVars>>
    /\ UNCHANGED <<now, ticks, reloads, page, hidden, storageMode, nextInst,
                   timers, activeTimers, intervals, unsubs, hist, unloaded,
                   cleaned>>

\* Something other than the timer code overwrites a session-start marker.
CorruptMarker(c, q, v) ==
    /\ storage' = SetItem(storage, SessionKeyOf(c, q), v)
    /\ last' = NoObs
    /\ UNCHANGED <<globalListeners, storeVars, chromeVars>>
    /\ UNCHANGED <<now, ticks, reloads, page, hidden, storageMode, nextInst,
                   timers, activeTimers, intervals, unsubs, hist, unloaded,
                   cleaned>>

(***************************************************************************)
(* Specifications.                                                          *)
(***************************************************************************)
\* One page: every call on the timers and the visibility events, over time.
Next ==
    \/ \E k \in Keys : CallGetTimer(k[1], k[2])
    \/ \E k \in Keys : CallCleanupTimer(k[1], k[2])
    \/ \E i \in Insts : CallPause(i)
    \/ \E i \in Insts : CallResume(i)
    \/ \E i \in Insts : CallStop(i)
    \/ \E i \in Insts : CallSaveState(i)
    \/ \E i \in Insts : CallStartAutoSave(i)
    \/ \E i \in Insts : CallHandleVisibilityChange(i)
    \/ \E iv \in intervals : IntervalFires(iv)
    \/ VisibilityChangeEvent
    \/ \E d \in Deltas : Tick(d)

Spec == Init /\ [][Next]_vars

\* Across page loads: save, unload, reload and restore within or after the
\* session window.
NextReload ==
    \/ \E k \in Keys : CallGetTimer(k[1], k[2])
    \/ \E k \in Keys : CallCleanupTimer(k[1], k[2])
    \/ \E i \in Insts : CallPause(i)
    \/ \E i \in Insts : CallResume(i)
    \/ \E i \in Insts : CallSaveState(i)
    \/ BeforeUnloadEvent
    \/ PageReload
    \/ \E d \in LongDeltas : Tick(d)

SpecReload == Init /\ [][NextReload]_vars

\* Subscriptions and the notifications pause, resume and stop send.
NextListeners ==
    \/ \E k \in Keys : CallGetTimer(k[1], k[2])
    \/ \E k \in Keys : CallCleanupTimer(k[1], k[2])
    \/ \E i \in Insts : CallPause(i)
    \/ \E i \in Insts : CallResume(i)
    \/ \E i \in Insts : CallStop(i)
    \/ \E i \in Insts, l \in Listeners : CallSubscribe(i, l)
    \/ \E j \in 1..MaxUnsubs : CallUnsubscribe(j)
    \/ VisibilityChangeEvent

SpecListeners == Init /\ [][NextListeners]_vars

\* sessionStorage that throws or holds what the timer code did not write.
NextFault ==
    \/ \E k \in Keys : CallGetTimer(k[1], k[2])
    \/ \E k \in Keys : CallCleanupTimer(k[1], k[2])
    \/ \E i \in Insts : CallPause(i)
    \/ \E i \in Insts : CallSaveState(i)
    \/ \E i \in Insts : CallStop(i)
    \/ \E m \in StorageModes : StorageModeChanges(m)
    \/ \E k \in Keys, v \in CorruptRecords : CorruptRecord(k[1], k[2], v)
    \/ \E k \in Keys, v \in CorruptMarkers : CorruptMarker(k[1], k[2], v)
    \/ \E d \in {1} : Tick(d)

SpecFault == Init /\ [][NextFault]_vars

\* Several timers in one registry.
NextRegistry ==
    \/ \E k \in RegistryKeys : CallGetTimer(k[1], k[2])
    \/ \E k \in RegistryKeys : CallCleanupTimer(k[1], k[2])
    \/ \E i \in Insts : CallPause(i)
    \/ \E i \in Insts : CallStop(i)
    \/ \E d \in {1} : Tick(d)

SpecRegistry == Init /\ [][NextRegistry]_vars

\* The storage entries of several timers.
NextKeys ==
    \/ \E k \in RegistryKeys : CallGetTimer(k[1], k[2])
    \/ \E k \in RegistryKeys : CallCleanupTimer(k[1], k[2])
    \/ \E i \in Insts : CallStop(i)
    \/ \E i \in Insts : CallSaveState(i)
    \/ \E d \in {1} : Tick(d)

SpecKeys == Init /\ [][NextKeys]_vars

\* Several timers in one registry while the page is hidden, shown, unloaded
\* and loaded again.
NextVisibility ==
    \/ \E k \in RegistryKeys : CallGetTimer(k[1], k[2])
    \/ \E k \in RegistryKeys : CallCleanupTimer(k[1], k[2])
    \/ \E i \in Insts : CallPause(i)
    \/ \E i \in Insts : CallStop(i)
    \/ \E i \in Insts : CallResume(i)
    \/ VisibilityChangeEvent
    \/ BeforeUnloadEvent
    \/ PageReload

SpecVisibility == Init /\ [][NextVisibility]_vars

\* pause() and resume() called again and again on subscribed timers, over
\* time.
NextRepeat ==
    \/ \E k \in Keys : CallGetTimer(k[1], k[2])
    \/ \E i \in Insts : CallPause(i)
    \/ \E i \in Insts : CallResume(i)
    \/ \E i \in Insts : CallStop(i)
    \/ \E i \in Insts, l \in Listeners : CallSubscribe(i, l)
    \/ \E d \in {1} : Tick(d)

SpecRepeat == Init /\ [][NextRepeat]_vars

\* Timers the page pauses itself, and a page that is hidden and shown, over
\* time.
NextResume ==
    \/ \E k \in RegistryKeys : CallGetTimer(k[1], k[2])
    \/ \E i \in Insts : CallPause(i)
    \/ VisibilityChangeEvent
    \/ \E d \in {1} : Tick(d)

SpecResume == Init /\ [][NextResume]_vars

\* One session over several page loads: saved by the page, by the interval
\* and by the events, until it expires.
NextMarker ==
    \/ \E k \in Keys : CallGetTimer(k[1], k[2])
    \/ \E i \in Insts : CallPause(i)
    \/ \E i \in Insts : CallSaveState(i)
    \/ \E iv \in intervals : IntervalFires(iv)
    \/ VisibilityChangeEvent
    \/ BeforeUnload(MaxSessionReloads)
    \/ PageReload
    \/ \E d \in LongDeltas : Tick(d)

SpecMarker == Init /\ [][NextMarker]_vars

\* A page that reads the displayed time through TimerUtils, before and after
\* it cleans the timer up and over a page load.
NextUtils ==
    \/ \E k \in Keys : CallUtilsGetFormattedTime(k[1], k[2])
    \/ \E k \in Keys : CallGetTimer(k[1], k[2])
    \/ \E k \in Keys : CallCleanupTimer(k[1], k[2])
    \/ \E i \in Insts : CallSaveState(i)
    \/ BeforeUnloadEvent
    \/ PageReload
    \/ \E d \in Deltas : Tick(d)

SpecUtils == Init /\ [][NextUtils]_vars

\* The time a page displays.
NextDisplay ==
    \/ \E k \in Keys : CallGetTimer(k[1], k[2])
    \/ \E i \in Insts : CallPause(i)
    \/ \E i \in Insts : CallResume(i)
    \/ \E i \in Insts : CallGetFormattedTime(i)
    \/ \E d \in DisplayDeltas : Tick(d)

SpecDisplay == Init /\ [][NextDisplay]_vars

\* DashboardChrome while the tenant of the path changes and the responses
\* of its fetches arrive, in any order.
NextChrome ==
    \/ \E t \in ChromeTenants : TenantChanges(t)
    \/ FlushEffects
    \/ \E e \in 1..MaxFetches, o \in FetchOutcomes : FetchResolves(e, o)
    \/ \E e \in 1..MaxFetches, o \in JsonOutcomes : JsonResolves(e, o)
    \/ LogoLoads
    \/ LogoErrors

InitDashboard ==
    InitTimers /\ InitStore(Undefined) /\ \E t \in ChromeTenants : InitChrome(t)

SpecChrome == InitDashboard /\ [][NextChrome]_vars

\* The analytics store of the dashboard.
NextAnalytics ==
    \/ \E t \in Tenants : SetTenant(t)
    \/ \E code \in JobCodes : SetSelectedJob(code)
    \/ StoreReload

SpecAnalytics == InitAnalytics /\ [][NextAnalytics]_vars

(***************************************************************************)
(* Properties of a timer within one page (Spec).                            *)
(***************************************************************************)
\* C1: after pause() took effect on an active manager, getElapsedTime()
\* returns the value it had at the pause, however far the clock advances,
\* until resume() (or stop()) is called.
PauseFreezesElapsedTime ==
    \A i \in Insts :
        hist[i].pausedE # Null =>
            GetElapsedTime(timers[i], now) = hist[i].pausedE

\* C2: for an active manager paused at elapsed time e, getElapsedTime() is e
\* at the instant resume() returns, whatever time passed while paused, and
\* e + d when d milliseconds have passed since resume().
ResumeContinuity ==
    \A i \in Insts :
        hist[i].resumedE # Null =>
            GetElapsedTime(timers[i], now) =
                hist[i].resumedE + (now - hist[i].resumedT)

\* A manager paused at e > 0, resumed after the clock advanced, and read
\* later still.
ResumeContinuityWitness ==
    \E i \in Insts :
        /\ hist[i].resumedE # Null /\ hist[i].resumedE > 0
        /\ hist[i].resumedLate
        /\ now > hist[i].resumedT

\* C7: once stop() has been called on a manager, getElapsedTime() returns 0
\* in every later state, whatever is called on it afterwards.
StopIsTerminal ==
    \A i \in Insts :
        hist[i].stopped => GetElapsedTime(timers[i], now) = 0

\* A stopped manager that resume() has given a start time in the past and
\* that has an auto-save interval again.
StopIsTerminalWitness ==
    \E i \in Insts :
        /\ hist[i].stopped
        /\ ~timers[i].state.isPaused
        /\ ~Falsy(timers[i].state.startTime)
        /\ now > timers[i].state.startTime
        /\ timers[i].autoSaveInterval # Null

\* The state stop() leaves: both storage entries absent, inactive, paused,
\* no auto-save interval scheduled for the object.
StoppedState(i) ==
    /\ ~Has(storage, timers[i].storageKey)
    /\ ~Has(storage, timers[i].sessionKey)
    /\ ~timers[i].state.isActive
    /\ timers[i].state.isPaused
    /\ timers[i].autoSaveInterval = Null
    /\ \A iv \in intervals : iv.owner # i

CleanupForgetsTimer ==
    [][/\ \A k \in Keys :
             CallCleanupTimer(k[1], k[2]) =>
                 /\ last'.op = "cleanupTimer" /\ ~last'.threw
                 /\ IF MapHas(activeTimers, RegistryKeyOf(k[1], k[2]))
                    THEN LET i == MapGet(activeTimers, RegistryKeyOf(k[1], k[2]))
                         IN /\ ~MapHas(activeTimers', RegistryKeyOf(k[1], k[2]))
                            /\ \A j \in 1..Len(activeTimers') :
                                   activeTimers'[j].timer # i
                            /\ ~Has(storage', StorageKeyOf(k[1], k[2]))
                            /\ ~Has(storage', SessionKeyOf(k[1], k[2]))
                            /\ \A iv \in intervals' : iv.owner # i
                    ELSE /\ activeTimers' = activeTimers
                         /\ storage' = storage
       /\ (last'.op = "construct" /\ last'.cleanedInst # Null) =>
             /\ ~last'.threw
             /\ last'.inst \in Insts' /\ last'.inst # last'.cleanedInst
             /\ \E k \in Keys :
                    GetTimerReturns(activeTimers', k[1], k[2]) = last'.inst
             /\ ~last'.restored
             /\ GetElapsedTime(timers'[last'.inst], now') = 0]_vars

\* getTimer has constructed a manager for a pair whose earlier manager had
\* run for some time when cleanupTimer removed it.
CleanupForgetsTimerWitness ==
    /\ last.op = "construct" /\ last.cleanedInst # Null
    /\ last.cleanedE > 0
    /\ last.inst \in Insts
    /\ GetElapsedTime(timers[last.inst], now) = 0

\* The three states of the spec: running (active, not paused), paused
\* (active, paused), stopped (inactive, paused).
Running(t) == t.state.isActive /\ ~t.state.isPaused
Paused(t) == t.state.isActive /\ t.state.isPaused
Stopped(t) == ~t.state.isActive /\ t.state.isPaused

\* C20: once stop() has been called on a manager it is inactive and paused
\* in every later state, whatever is called on it, and every manager is in
\* exactly one of the states running, paused and stopped.
StoppedIsAbsorbing ==
    \A i \in Insts :
        /\ hist[i].stopped => Stopped(timers[i])
        /\ Running(timers[i]) \/ Paused(timers[i]) \/ Stopped(timers[i])

\* C19: saveState() writes as elapsedTime the live elapsed time of a running
\* manager and, for a manager that pause() has paused, the elapsed time at
\* that pause, however much later the save runs.
SaveStatePersistsFrozenTime ==
    [][\A i \in Insts :
          CallSaveState(i) =>
              /\ Has(storage', timers[i].storageKey)
              /\ storage'[timers[i].storageKey].elapsedTime =
                     IF hist[i].pausedE # Null THEN hist[i].pausedE
                     ELSE GetElapsedTime(timers[i], now)]_vars

\* pause() never took effect on the manager, stop() was never called on it
\* and it is not paused.
NeverPausedNorStopped(i) ==
    /\ ~timers[i].state.isPaused
    /\ hist[i].pausedE = Null /\ hist[i].resumedE = Null
    /\ ~hist[i].stopped

\* C15: for a manager that is never paused and never stopped,
\* getElapsedTime() after a step is at least what it was before the step,
\* whatever else is called and however far the clock advances.
ElapsedTimeMonotonic ==
    [][\A i \in Insts :
          (/\ i \in Insts'
           /\ NeverPausedNorStopped(i) /\ NeverPausedNorStopped(i)')
          => GetElapsedTime(timers'[i], now') >= GetElapsedTime(timers[i], now)]_vars

\* A manager never paused nor stopped that has run over two advances of
\* the clock.
ElapsedTimeMonotonicWitness ==
    \E i \in Insts :
        /\ NeverPausedNorStopped(i)
        /\ ticks >= 2
        /\ GetElapsedTime(timers[i], now) > 65000

\* The intervals scheduled whose callback saves manager i.
IntervalsOf(ivs, i) == {iv \in ivs : iv.owner = i}

\* C21: after every step each manager has at most one auto-save interval
\* scheduled, the one its autoSaveInterval field holds; startAutoSave()
\* leaves exactly one, whatever was scheduled before, and stop() none.
OneIntervalPerManager ==
    [][/\ \A iv \in intervals' : iv.owner \in Insts'
       /\ \A i \in Insts' :
             /\ Cardinality(IntervalsOf(intervals', i)) <= 1
             /\ \A iv \in IntervalsOf(intervals', i) :
                    iv.id = timers'[i].autoSaveInterval
       /\ \A i \in Insts :
             /\ CallStartAutoSave(i) =>
                    /\ Cardinality(IntervalsOf(intervals', i)) = 1
                    /\ IntervalsOf(intervals, i) # {}
                           => Cardinality(intervals') = Cardinality(intervals)
             /\ CallStop(i) => IntervalsOf(intervals', i) = {}]_vars

\* A manager whose interval stop() cancelled and startAutoSave() scheduled
\* again, with that one interval live.
OneIntervalPerManagerWitness ==
    \E i \in Insts :
        /\ hist[i].stopped
        /\ timers[i].autoSaveInterval # Null
        /\ Cardinality(IntervalsOf(intervals, i)) = 1
        /\ Cardinality(intervals) = 1

\* C22: a tick of the auto-save interval writes the state record of its
\* manager (the elapsed time at the tick, not paused) when the manager is
\* active and not paused, and leaves sessionStorage as it was when the
\* manager is paused or stopped.
AutoSaveOnlyWhileRunning ==
    [][\A iv \in intervals :
          IntervalFires(iv) =>
              LET t == timers[iv.owner]
              IN IF Running(t)
                 THEN /\ Has(storage', t.storageKey)
                      /\ storage'[t.storageKey].elapsedTime = GetElapsedTime(t, now)
                      /\ ~storage'[t.storageKey].isPaused
                      /\ Restrict(storage', (DOMAIN storage') \ {t.storageKey})
                             = Restrict(storage, (DOMAIN storage) \ {t.storageKey})
                 ELSE storage' = storage]_vars

\* A tick has fired for a manager that was paused some time before, and no
\* record was written.
AutoSaveOnlyWhileRunningWitness ==
    /\ last.op = "autoSave" /\ last.inst \in Insts
    /\ Paused(timers[last.inst])
    /\ hist[last.inst].waited
    /\ ~Has(storage, timers[last.inst].storageKey)

\* C26: once stop() has run on a timer, neither its state key nor its
\* session-start key is in sessionStorage again, whatever is called on the
\* timer or delivered to the registry afterwards.
StoppedKeysStayAbsent ==
    \A i \in Insts :
        hist[i].stopped =>
            /\ ~Has(storage, timers[i].storageKey)
            /\ ~Has(storage, timers[i].sessionKey)

(***************************************************************************)
(* Properties of construction over page loads (SpecReload).                 *)
(***************************************************************************)
IsNumber(x) == x \notin {Null, NaN}

\* C3: when storage holds a state record with elapsedTime = E and a marker
\* T0 with now - T0 < SessionWindow, the constructed manager is active, has
\* the persisted isPaused and reads getElapsedTime() = E.
RestoreWithinWindow ==
    (/\ last.op = "construct"
     /\ last.hadRecord /\ IsNumber(last.recElapsed)
     /\ IsNumber(last.age) /\ last.age < SessionWindow)
    => /\ ~last.threw
       /\ last.inst \in Insts
       /\ timers[last.inst].state.isActive
       /\ timers[last.inst].state.isPaused = last.recPaused
       /\ GetElapsedTime(timers[last.inst], now) = last.recElapsed

\* A manager constructed one millisecond before the window closes, from a
\* record with elapsed time > 0 that was saved while paused.
RestoreWithinWindowWitness ==
    /\ last.op = "construct" /\ last.restored
    /\ last.hadRecord /\ last.recElapsed > 0 /\ last.recPaused
    /\ last.age = SessionWindow - 1

\* C4: when the marker T0 has now - T0 >= SessionWindow, construction
\* ignores the record: elapsed time 0, active, not paused, and the marker
\* in storage is the construction time.
RestoreExpiry ==
    (/\ last.op = "construct"
     /\ IsNumber(last.age) /\ last.age >= SessionWindow)
    => /\ ~last.threw
       /\ last.inst \in Insts
       /\ timers[last.inst].state.isActive
       /\ ~timers[last.inst].state.isPaused
       /\ GetElapsedTime(timers[last.inst], now) = 0
       /\ Has(storage, timers[last.inst].sessionKey)
       /\ ParseInt(storage[timers[last.inst].sessionKey]) = now

\* A manager constructed exactly SessionWindow after the session start,
\* with a record of elapsed time > 0 in storage.
RestoreExpiryWitness ==
    /\ last.op = "construct" /\ ~last.restored
    /\ last.hadRecord /\ last.recElapsed > 0
    /\ last.age = SessionWindow

\* C6: a manager constructed within the window after a beforeunload that
\* found the key's timer running reads the elapsed time that timer read at
\* the unload.
ReloadPreservesElapsedTime ==
    (/\ last.op = "construct"
     /\ last.unloadE # Null
     /\ IsNumber(last.age) /\ last.age < SessionWindow)
    => /\ ~last.threw
       /\ last.inst \in Insts
       /\ GetElapsedTime(timers[last.inst], now) = last.unloadE

\* A reload of a timer that had run for a while, with the new page
\* constructing its manager some time after the unload.
ReloadPreservesElapsedTimeWitness ==
    /\ last.op = "construct" /\ last.restored
    /\ last.unloadE > 0 /\ last.unloadGap > 0

\* C18: when construction starts fresh, no state record is left under the
\* manager's state key, and a second manager constructed for the same pair
\* in that state is not restored from one: it reads elapsed time 0.
FreshStartDiscardsStaleData ==
    (last.op = "construct" /\ ~last.restored /\ last.inst \in Insts) =>
        LET t == timers[last.inst]
            second == LoadState(NewTimer(t.candidateId, t.questionIndex),
                                storage, storageMode, now)
        IN /\ ~Has(storage, t.storageKey)
           /\ ~second.restored
           /\ GetElapsedTime(second.timer, now) = 0

(***************************************************************************)
(* Construction with a storage that throws or is corrupted (SpecFault).     *)
(***************************************************************************)
\* C5: constructing a manager never throws, whatever storage does, and
\* ends with isActive = true and a start time set.
ConstructionNeverThrows ==
    last.op = "construct" =>
        /\ ~last.threw
        /\ last.inst \in Insts
        /\ timers[last.inst].state.isActive
        /\ IsNumber(timers[last.inst].state.startTime)

\* C13: no exception leaves saveState(), also when sessionStorage throws;
\* the call changes nothing of the manager (start time, elapsed time, paused
\* and active flags), so the elapsed time goes on as before, and a failed
\* write leaves storage as it was.
SaveStateNeverThrows ==
    [][\A i \in Insts :
          CallSaveState(i) =>
              /\ ~SaveStateThrows(timers[i], storage, storageMode, now)
              /\ last'.op = "saveState" => ~last'.threw
              /\ i \in Insts' /\ timers'[i] = timers[i]
              /\ GetElapsedTime(timers'[i], now') = GetElapsedTime(timers[i], now)
              /\ SetThrows(storageMode) => storage' = storage]_vars

\* saveState() was called on a running manager with elapsed time > 0 while
\* setItem throws, and no record was written.
SaveStateNeverThrowsWitness ==
    /\ last.op = "saveState" /\ last.inst \in Insts
    /\ SetThrows(storageMode)
    /\ timers[last.inst].state.isActive /\ ~timers[last.inst].state.isPaused
    /\ GetElapsedTime(timers[last.inst], now) > 0
    /\ ~Has(storage, timers[last.inst].storageKey)


(***************************************************************************)
Range(seq) == {seq[j] : j \in 1..Len(seq)}

\* C9: the function subscribe(l) returned removes l on its first call;
\* every later call of it leaves the registered listeners unchanged, also
\* when l was subscribed again in between; no call throws.
UnsubscribeActsOnce ==
    [][last'.op = "unsubscribe" =>
          /\ ~last'.threw
          /\ (~last'.again =>
                 last'.listener \notin Range(timers'[last'.inst].listeners))
          /\ (last'.again =>
                 timers'[last'.inst].listeners = timers[last'.inst].listeners)]_vars

\* C10: on every notification each registered listener is invoked exactly
\* once, also when another listener throws; an effective pause(), an
\* effective resume() and stop() notify, and no listener exception reaches
\* their caller.
EveryListenerNotifiedOnce ==
    /\ last.op \in {"pause", "resume", "stop", "cleanupTimer"} /\ last.inst # 0
           => last.inst \in last.notified
    /\ last.notified # {} => ~last.threw
    /\ \A i \in last.notified : \A l \in Listeners :
           last.calls[i][l] = IF l \in Range(last.registered[i]) THEN 1 ELSE 0

\* A notification of a manager whose throwing listener comes first.
EveryListenerNotifiedOnceWitness ==
    \E i \in last.notified :
        /\ last.registered[i] = <<"bad", "good">>
        /\ last.calls[i]["good"] = 1

(***************************************************************************)
(* Several timers in one registry (SpecRegistry).                           *)
(***************************************************************************)
\* C11: getTimer(c, q) on a registered pair returns the instance the
\* earlier call returned; on an unregistered pair it returns an instance
\* that no other pair has; and pause() or stop() on one instance changes
\* no other instance.
RegistryIdentity ==
    [][/\ \A k \in RegistryKeys :
             CallGetTimer(k[1], k[2]) /\ MapHas(activeTimers', RegistryKeyOf(k[1], k[2]))
             => /\ MapHas(activeTimers, RegistryKeyOf(k[1], k[2]))
                   => GetTimerReturns(activeTimers', k[1], k[2])
                          = GetTimerReturns(activeTimers, k[1], k[2])
                /\ \A k2 \in RegistryKeys \ {k} :
                       MapHas(activeTimers', RegistryKeyOf(k2[1], k2[2]))
                       => GetTimerReturns(activeTimers', k2[1], k2[2])
                              # GetTimerReturns(activeTimers', k[1], k[2])
                /\ \A j \in Insts : j \in Insts' /\ timers'[j] = timers[j]
       /\ \A i \in Insts :
             CallPause(i) \/ CallStop(i)
             => \A j \in Insts \ {i} : j \in Insts' /\ timers'[j] = timers[j]]_vars

\* Two registered timers of which one is stopped and the other still runs,
\* some time after both were created.
RegistryIdentityWitness ==
    \E i, j \in Insts :
        /\ i # j
        /\ hist[i].stopped
        /\ timers[j].state.isActive /\ ~timers[j].state.isPaused
        /\ GetElapsedTime(timers[j], now) > 0
        /\ Len(activeTimers) = 2

(***************************************************************************)
(* The storage entries of several timers (SpecKeys).                        *)
(***************************************************************************)
\* Pairs whose ids and indexes concatenate to similar strings.
KeyPairs ==
    RegistryKeys \cup {<<"c", 1>>, <<"c1", 1>>, <<"c_1", 11>>, <<"c_", 11>>,
                       <<"1", 1>>, <<"1_1", 1>>}
\* The two sessionStorage keys of the manager of a pair.
OwnKeys(c, q) == {StorageKeyOf(c, q), SessionKeyOf(c, q)}
\* A step leaves every storage entry outside own as it was.
OthersUntouched(own) ==
    \A x \in ((DOMAIN storage) \cup (DOMAIN storage')) \ own :
        /\ x \in DOMAIN storage /\ x \in DOMAIN storage'
        /\ storage'[x] = storage[x]

\* C12: the two storage keys of a pair differ from both keys of every other
\* pair; constructing a manager gives the same object whatever the entries
\* of other pairs are, and construction, saveState(), stop() and
\* cleanupTimer() leave the entries of other pairs as they were.
KeysAreDisjoint ==
    [][/\ \A k1 \in KeyPairs : \A k2 \in KeyPairs \ {k1} :
             OwnKeys(k1[1], k1[2]) \cap OwnKeys(k2[1], k2[2]) = {}
       /\ \A k \in RegistryKeys :
             LoadState(NewTimer(k[1], k[2]), storage, storageMode, now).timer
                 = LoadState(NewTimer(k[1], k[2]),
                             Restrict(storage, OwnKeys(k[1], k[2])),
                             storageMode, now).timer
       /\ \A k \in RegistryKeys :
             CallGetTimer(k[1], k[2]) \/ CallCleanupTimer(k[1], k[2])
             => OthersUntouched(OwnKeys(k[1], k[2]))
       /\ \A i \in Insts :
             CallSaveState(i) \/ CallStop(i)
             => OthersUntouched(OwnKeys(timers[i].candidateId,
                                        timers[i].questionIndex))]_vars

\* stop() has just removed the entries of one manager while the record and
\* the marker of another pair are in storage.
KeysAreDisjointWitness ==
    /\ last.op = "stop" /\ last.inst \in Insts
    /\ ~Has(storage, timers[last.inst].storageKey)
    /\ \E j \in Insts \ {last.inst} :
           /\ Has(storage, timers[j].storageKey)
           /\ Has(storage, timers[j].sessionKey)
           /\ storage[timers[j].storageKey].elapsedTime > 0

(***************************************************************************)
(* The visibility events over a registry (SpecVisibility).                  *)
(***************************************************************************)
\* The timers the registry holds.
Registered == {activeTimers[j].timer : j \in 1..Len(activeTimers)}

\* C23: after a visibilitychange event of a page that became hidden, every
\* registered timer is paused and sessionStorage holds its state record
\* with isPaused true; after one of a page that became visible, every
\* registered timer is not paused.
VisibilityReachesEveryManager ==
    [][VisibilityChangeEvent =>
          \A i \in Registered :
              IF hidden'
              THEN /\ timers'[i].state.isPaused
                   /\ Has(storage', timers'[i].storageKey)
                   /\ storage'[timers'[i].storageKey].isPaused
              ELSE ~timers'[i].state.isPaused]_vars

\* The page was hidden with two timers registered and running: both were
\* paused by the event and both have their record.
VisibilityReachesEveryManagerWitness ==
    /\ hidden /\ last.op = "pause" /\ last.inst = 0
    /\ Cardinality(Registered) = 2
    /\ last.notified = Registered
    /\ \A i \in Registered :
           /\ Paused(timers[i])
           /\ Has(storage, timers[i].storageKey)
           /\ storage[timers[i].storageKey].isPaused

\* How often timer i occurs in the sequence of handled timers.
TimesHandled(handled, i) ==
    Cardinality({j \in 1..Len(handled) : handled[j] = i})

\* C24: the registry has exactly one visibilitychange listener and exactly
\* one beforeunload listener from its construction on; getTimer and
\* cleanupTimer leave the installed listeners as they are; and each event
\* calls the handler of every registered timer exactly once, and of no other.
ListenersInstalledOnce ==
    [][/\ globalListeners = [visibilitychange |-> 1, beforeunload |-> 1]
       /\ globalListeners' = [visibilitychange |-> 1, beforeunload |-> 1]
       /\ \A k \in RegistryKeys :
              CallGetTimer(k[1], k[2]) \/ CallCleanupTimer(k[1], k[2])
                  => globalListeners' = globalListeners
       /\ VisibilityChangeEvent =>
              \A i \in Insts :
                  TimesHandled(VisibilityDelivery.handled, i)
                      = IF i \in Registered THEN 1 ELSE 0
       /\ BeforeUnloadEvent =>
              \A i \in Insts :
                  TimesHandled(UnloadDelivery.handled, i)
                      = IF i \in Registered THEN 1 ELSE 0]_vars

\* Two timers were constructed and one of them cleaned up; the page was then
\* hidden and the event paused the one that is still registered.
ListenersInstalledOnceWitness ==
    /\ globalListeners = [visibilitychange |-> 1, beforeunload |-> 1]
    /\ hidden /\ last.op = "pause" /\ last.inst = 0
    /\ nextInst = 2 /\ Cardinality(Registered) = 1
    /\ last.notified = Registered
    /\ \A i \in Insts \ Registered : hist[i].stopped

(***************************************************************************)
(* Timers paused by the page and by the hidden document (SpecResume).       *)
(***************************************************************************)
\* C27: the visibilitychange event of a page that became visible resumes
\* every registered timer that is paused, whether pause() was called by the
\* page or by the event that hid it: the timer is not paused afterwards, its
\* startTime is the time of the event less the frozen elapsed time, and its
\* listeners were notified.
VisibleResumesEveryPaused ==
    [][(VisibilityChangeEvent /\ hidden) =>
          \A i \in Registered :
              timers[i].state.isPaused =>
                  /\ ~timers'[i].state.isPaused
                  /\ timers'[i].state.startTime = now - timers[i].state.elapsedTime
                  /\ i \in last'.notified]_vars

\* The page became visible and the event resumed a timer whose pause() had
\* taken effect before the page was hidden: the record written when the page
\* was hidden holds a later time than the one that pause() froze.
VisibleResumesEveryPausedWitness ==
    /\ ~hidden /\ last.op = "resume" /\ last.inst = 0
    /\ \E i \in Registered :
           /\ i \in last.notified
           /\ Running(timers[i])
           /\ hist[i].resumedE # Null
           /\ Has(storage, timers[i].storageKey)
           /\ storage[timers[i].storageKey].elapsedTime > hist[i].resumedE

(***************************************************************************)
(* The session-start marker over page loads (SpecMarker).                   *)
(***************************************************************************)
\* The session-start marker of (c, q) in storage st, <<>> when absent.
MarkerOf(st, c, q) ==
    IF Has(st, SessionKeyOf(c, q)) THEN st[SessionKeyOf(c, q)] ELSE <<>>

\* C28: the session-start marker of a key changes only in a construction
\* that starts fresh, which sets it to the time of the construction; every
\* other step (pause, resume, saveState, an interval tick, a visibility or
\* unload event, a page load) leaves it as it is, and a construction that
\* restores finds it less than SessionWindow old and leaves it as it is.
MarkerWrittenOnlyByFreshStart ==
    [][\A k \in Keys :
          LET m == MarkerOf(storage, k[1], k[2])
              n == MarkerOf(storage', k[1], k[2])
              fresh == /\ CallGetTimer(k[1], k[2])
                       /\ last'.op = "construct" /\ ~last'.restored
          IN /\ fresh => n = NumberToString(now)
             /\ ~fresh => n = m
             /\ (CallGetTimer(k[1], k[2]) /\ last'.restored) =>
                    /\ m # <<>>
                    /\ now - ParseInt(m) < SessionWindow]_vars

\* The second page load after the fresh start restores the session: the
\* marker is the time of the fresh start, SessionWindow - 1 ago, and the
\* record was written after it.
MarkerWrittenOnlyByFreshStartWitness ==
    /\ last.op = "construct" /\ last.restored
    /\ reloads = 2
    /\ last.age = SessionWindow - 1
    /\ \E k \in Keys :
           /\ MarkerOf(storage, k[1], k[2]) = NumberToString(Epoch)
           /\ Has(storage, StorageKeyOf(k[1], k[2]))
           /\ storage[StorageKeyOf(k[1], k[2])].lastUpdated > Epoch

(***************************************************************************)
(* pause() and resume() called again (SpecRepeat).                          *)
(***************************************************************************)
\* C25: pause() on a timer that is paused and resume() on a timer that is
\* not paused change nothing: startTime, the frozen elapsedTime, isPaused
\* and isActive (and the rest of the object) stay as they were and no
\* listener is called.
RepeatedCallsAreNoOps ==
    [][\A i \in Insts :
          /\ (CallPause(i) /\ timers[i].state.isPaused) =>
                 /\ timers'[i].state = timers[i].state
                 /\ timers' = timers
                 /\ Pause(timers[i], now).note.calls = NoCalls
                 /\ last'.notified = {}
          /\ (CallResume(i) /\ ~timers[i].state.isPaused) =>
                 /\ timers'[i].state = timers[i].state
                 /\ timers' = timers
                 /\ Resume(timers[i], now).note.calls = NoCalls
                 /\ last'.notified = {}]_vars

\* pause() was called on a timer with a listener that had been paused some
\* time before: the frozen time is still the one of the first pause() and
\* the listener was not called.
RepeatedCallsAreNoOpsWitness ==
    /\ last.op = "pauseNoOp" /\ last.inst \in Insts
    /\ last.notified = {}
    /\ LET t == timers[last.inst]
       IN /\ Paused(t)
          /\ t.listeners # <<>>
          /\ hist[last.inst].waited
          /\ t.state.elapsedTime = hist[last.inst].pausedE
          /\ t.state.elapsedTime < GetElapsedTime(t, now)

(***************************************************************************)
(* The displayed time (SpecDisplay).                                        *)
(***************************************************************************)
\* The position of the first ":" in a string of characters, 0 if none.
ColonAt(str) ==
    IF \E j \in 1..Len(str) : str[j] = ":"
    THEN CHOOSE j \in 1..Len(str) : str[j] = ":" /\ \A x \in 1..(j - 1) : str[x] # ":"
    ELSE 0
\* Every character is a decimal digit.
AllDigits(str) == \A j \in 1..Len(str) : IsDigit(str[j])

\* C16: for an elapsed time e >= 0, getFormattedTime() returns the decimal
\* digits of floor(e / 60000) without padding (not reduced modulo 60), a
\* colon, and floor(e / 1000) mod 60 as exactly two digits.
FormattedTimeIsMinutesSeconds ==
    (last.op = "getFormattedTime" /\ last.inst \in Insts) =>
        LET e == GetElapsedTime(timers[last.inst], now)
            c == ColonAt(last.text)
            mm == SubSeq(last.text, 1, c - 1)
            ss == SubSeq(last.text, c + 1, Len(last.text))
        IN e >= 0 =>
               /\ c > 1
               /\ AllDigits(mm) /\ ParseInt(mm) = e \div 60000
               /\ Len(mm) > 1 => mm[1] # "0"
               /\ Len(ss) = 2 /\ AllDigits(ss)
               /\ ParseInt(ss) = (e \div 1000) % 60

\* getFormattedTime() on a manager that has run for an hour or more, with
\* fewer than ten seconds on the display.
FormattedTimeIsMinutesSecondsWitness ==
    /\ last.op = "getFormattedTime" /\ last.inst \in Insts
    /\ GetElapsedTime(timers[last.inst], now) >= 3600000
    /\ (GetElapsedTime(timers[last.inst], now) \div 1000) % 60 < 10
    /\ Len(last.text) = 5

(***************************************************************************)
(* The displayed time read through TimerUtils (SpecUtils).                  *)
(***************************************************************************)
\* What TimerUtils.getFormattedTime(c, q) leaves behind on a key without a
\* registered timer, but for the session-start marker: a new object that is
\* registered under the key, active and with one auto-save interval, whose
\* time is the string returned.
UtilsConstructed(c, q) ==
    LET key == RegistryKeyOf(c, q)
        i == nextInst + 1
    IN /\ i \notin Insts /\ i \in Insts'
       /\ MapHas(activeTimers', key) /\ MapGet(activeTimers', key) = i
       /\ timers'[i].state.isActive
       /\ timers'[i].autoSaveInterval # Null
       /\ Cardinality(IntervalsOf(intervals', i)) = 1
       /\ last'.op = "utilsGetFormattedTime" /\ last'.inst = i
       /\ last'.text = GetFormattedTime(timers'[i], now)

\* C29 as stated: TimerUtils.getFormattedTime(c, q) on a key without a
\* registered timer constructs and registers a timer, starts its auto-save,
\* writes the session-start marker and returns the new timer's time.
UtilsGetFormattedTimeWritesMarker ==
    [][\A k \in Keys :
          (/\ CallUtilsGetFormattedTime(k[1], k[2])
           /\ ~MapHas(activeTimers, RegistryKeyOf(k[1], k[2]))) =>
              /\ UtilsConstructed(k[1], k[2])
              /\ MarkerOf(storage', k[1], k[2]) = NumberToString(now)]_vars

\* C29, amended: TimerUtils.getFormattedTime(c, q) on a key without a
\* registered timer constructs and registers a timer, starts its auto-save
\* and returns the new timer's time; it writes the session-start marker when
\* the construction starts fresh, and leaves the marker of the stored
\* session as it is when the construction restores that session.
UtilsGetFormattedTimeConstructs ==
    [][\A k \in Keys :
          (/\ CallUtilsGetFormattedTime(k[1], k[2])
           /\ ~MapHas(activeTimers, RegistryKeyOf(k[1], k[2]))) =>
              /\ UtilsConstructed(k[1], k[2])
              /\ IF last'.restored
                 THEN /\ MarkerOf(storage, k[1], k[2]) # <<>>
                      /\ MarkerOf(storage', k[1], k[2]) = MarkerOf(storage, k[1], k[2])
                 ELSE MarkerOf(storage', k[1], k[2]) = NumberToString(now)]_vars

\* TimerUtils.getFormattedTime(c, q) right after cleanupTimer(c, q) of a
\* timer that had run for a minute or more: a new timer is registered with
\* its interval and its marker, and the call returned "0:00".
UtilsGetFormattedTimeConstructsWitness ==
    /\ last.op = "utilsGetFormattedTime" /\ last.inst \in Insts
    /\ ~last.restored
    /\ last.cleanedInst # Null /\ last.cleanedInst # last.inst
    /\ last.cleanedE >= 60000
    /\ last.text = <<"0", ":", "0", "0">>
    /\ Cardinality(IntervalsOf(intervals, last.inst)) = 1
    /\ Has(storage, timers[last.inst].sessionKey)
    /\ storage[timers[last.inst].sessionKey] = NumberToString(now)

(***************************************************************************)
(* The tenant metadata of DashboardChrome (SpecChrome).                     *)
(***************************************************************************)
\* Run e of the metadata effect is not the run for the tenant rendered: a
\* later run exists, or the tenant prop has changed since.
Stale(e) == e < Len(effects) \/ effects[e].tenant # chrome.tenant

SettersKeepOtherField ==
    [][/\ \A code \in JobCodes :
             SetSelectedJob(code) =>
                 /\ analytics'.selectedJobCode = code
                 /\ analytics'.tenant = analytics.tenant
       /\ \A t \in Tenants :
             SetTenant(t) =>
                 /\ analytics'.tenant = Some(t)
                 /\ analytics'.selectedJobCode = analytics.selectedJobCode]_vars

\* setSelectedJob("JD-100") was called on a store whose tenant an earlier
\* setTenant("globex") had set, and the tenant is still there.
SettersKeepOtherFieldWitness ==
    /\ storeCall = [op |-> "setSelectedJob", arg |-> Some("JD-100")]
    /\ analytics.selectedJobCode = Some("JD-100")
    /\ analytics.tenant = Some("globex")
    /\ envTenant = Some("acme")

====
